---------------------------- MODULE Spec2Model ----------------------------
(***************************************************************************)
(* Model of the two allocator engines of the repository:                   *)
(*   - MemoryAllocator (buddy engine),  src/allocator.cpp / allocator.hpp  *)
(*   - TLSFAllocator   (TLSF engine),   src/tlsf_allocator.cpp / .hpp      *)
(* One allocator instance is modelled at a time; the variable `engine`     *)
(* says which class was constructed.  Every public operation is one        *)
(* action.  Exceptions are recorded in `last.err` by their C++ type or     *)
(* message.                                                                *)
(***************************************************************************)
EXTENDS Integers, Sequences, FiniteSets, TLC

(***************************************************************************)
(* Program constants                                                       *)
(***************************************************************************)
MIN_BLOCK_SIZE == 16
BLOCK_SIZES_COUNT == 28
SL_INDEX_COUNT == 32
FL_INDEX_COUNT == 32
\* sizeof(TLSFAllocator::Block) on an LP64 target: size_t, size_t, bool
\* (padded to 8), and three pointers.
SizeofBlock == 48
\* size_t is 64 bits wide.  A value above 2^63 is held as its two's
\* complement, so that + and - wrap as they do in the source: SIZE_MAX, the
\* largest request, is 2^64 - 1.
SIZE_MAX == -1

(***************************************************************************)
(* Bounds of the model                                                     *)
(***************************************************************************)
\* number of public operations performed on one buddy allocator instance
MaxOps == 6
\* number of public operations performed on one TLSF allocator instance
MaxTlsfOps == 5
\* number of public operations performed on the TLSF instance of the
\* fit-search scenario
MaxFitOps == 7

\* constructor arguments tried for the buddy engine (100 rounds up to 128)
BuddyCtorSizes == {8, 64, 100}
\* request sizes tried on the buddy engine
BuddyRequests == {0, 1, 16, 17, 33, 64, 129}
\* request sizes of the scenario of the largest request
BuddyHugeRequests == {1, 16, 33, SIZE_MAX}

\* constructor arguments tried for the TLSF engine
TlsfCtorSizes == {280, 4096}
\* request sizes tried on the TLSF engine
TlsfRequests == {0, 16, 40, 64, 128}

\* fit-search scenario: a constructor argument and request sizes that put two
\* blocks of different sizes (256 and 264) into one free list
TlsfFitCtorSizes == {760}
TlsfFitRequests == {16, 256, 264}
\* the arena and the request sizes of the two-allocation scenario
TlsfPairCtorSizes == {1024}
TlsfPairRequests == {16, 32}
\* arenas of the TLSF engine in the scenario of the statistics
TlsfStatCtorSizes == {280, 520}
\* largest size handed to mapping_indexes on its own
MaxMappingSize == 272

(***************************************************************************)
(* Bit utilities on naturals (the code works on size_t; every value the    *)
(* model feeds them is far below 2^31).                                    *)
(***************************************************************************)
RECURSIVE BitAnd(_, _)
BitAnd(a, b) ==
    IF a = 0 \/ b = 0 THEN 0
    ELSE (IF a % 2 = 1 /\ b % 2 = 1 THEN 1 ELSE 0) + 2 * BitAnd(a \div 2, b \div 2)

RECURSIVE BitOr(_, _)
BitOr(a, b) ==
    IF a = 0 THEN b
    ELSE IF b = 0 THEN a
    ELSE (IF a % 2 = 1 \/ b % 2 = 1 THEN 1 ELSE 0) + 2 * BitOr(a \div 2, b \div 2)

RECURSIVE Pow2(_)
Pow2(n) == IF n = 0 THEN 1 ELSE 2 * Pow2(n - 1)

ShiftRight(x, k) == x \div Pow2(k)

\* number of trailing zero bits, x > 0
RECURSIVE ctz(_)
ctz(x) == IF x % 2 = 1 THEN 0 ELSE 1 + ctz(x \div 2)

Max(a, b) == IF a >= b THEN a ELSE b

\* x--, smear the highest set bit downwards, x++.  For x = 0 and for x above
\* 2^63 the smear sets all 64 bits and x++ wraps to 0; for the other values
\* of the model the shift by 32 yields 0.
next_power_2(x) ==
    IF x <= 0 THEN 0 ELSE
    LET x0 == x - 1
        x1 == BitOr(x0, ShiftRight(x0, 1))
        x2 == BitOr(x1, ShiftRight(x1, 2))
        x3 == BitOr(x2, ShiftRight(x2, 4))
        x4 == BitOr(x3, ShiftRight(x3, 8))
        x5 == BitOr(x4, ShiftRight(x4, 16))
    IN  x5 + 1

is_power_of_2(x) == x # 0 /\ BitAnd(x, x - 1) = 0

\* mutant: std::min in place of std::max
calculate_block_size_Min(size) ==
    IF next_power_2(size) <= MIN_BLOCK_SIZE THEN next_power_2(size) ELSE MIN_BLOCK_SIZE

calculate_block_size(size) == Max(next_power_2(size), MIN_BLOCK_SIZE)

(***************************************************************************)
(* State                                                                   *)
(***************************************************************************)
VARIABLES
    engine,            \* "buddy" or "tlsf": the class that was constructed
    total_size,        \* both classes: total_size
    allocated_size,    \* both classes: allocated_size
    blocks,            \* buddy: std::map<size_t, MemoryBlock>
    mem,               \* tlsf: the arena new char[size + sizeof(Block)], as the
                       \* 8-byte words written so far: byte offset -> [k, v]
    segregated_lists,  \* tlsf: <<fl, sl>> -> head of the free list (absent: nullptr)
    fl_bitmap,         \* tlsf: fl_bitmap[0], as the set of its set bits
    sl_bitmap,         \* tlsf: sl_bitmap[fl], as the set of its set bits
    live,              \* history: <<offset, request>> of the allocations returned
                       \* and not yet given back by a dealloc that returned normally
    ever_returned,     \* history: the offsets ever returned for a request > 0
    last,              \* history: the last public call and its outcome
    nops               \* history: number of public calls made

vars == <<engine, total_size, allocated_size, blocks,
          mem, segregated_lists, fl_bitmap, sl_bitmap, live, ever_returned, last, nops>>

buddy_vars == <<blocks>>
tlsf_vars == <<mem, segregated_lists, fl_bitmap, sl_bitmap>>

NoCall == [op |-> "new", arg |-> 0, ret |-> -1, err |-> "none"]

(***************************************************************************)
(* Buddy engine: MemoryAllocator                                           *)
(***************************************************************************)
MemoryBlock(size, allocated, is_free) ==
    [size |-> size, allocated |-> allocated, is_free |-> is_free]

\* std::map operator[] assignment: insert or overwrite
MapPut(m, k, v) == [x \in DOMAIN m \cup {k} |-> IF x = k THEN v ELSE m[x]]
MapErase(m, k) == [x \in DOMAIN m \ {k} |-> m[x]]

SetMin(S) == CHOOSE x \in S : \A y \in S : x <= y
SetMax(S) == CHOOSE x \in S : \A y \in S : x >= y

\* while (block.size > block_size && block.size > MIN_BLOCK_SIZE) { halve }
RECURSIVE SplitDown(_, _, _)
SplitDown(b, addr, block_size) ==
    IF b[addr].size > block_size /\ b[addr].size > MIN_BLOCK_SIZE
    THEN LET new_size == ShiftRight(b[addr].size, 1)
             b1 == MapPut(b, addr + new_size, MemoryBlock(new_size, 0, TRUE))
             b2 == [b1 EXCEPT ![addr].size = new_size]
         IN  SplitDown(b2, addr, block_size)
    ELSE b

\* mutant: a block of exactly the wanted size is passed over
AllocFits_Strict(b, block_size) ==
    {a \in DOMAIN b : b[a].is_free /\ b[a].size > block_size}

\* the block the ascending scan of alloc stops at
AllocFits(b, block_size) ==
    {a \in DOMAIN b : b[a].is_free /\ b[a].size >= block_size}

\* mutant: the counter is advanced before the scan, also when the scan fails
BuddyAlloc_CountFirst(b, asz, size) ==
    IF size = 0 THEN [blocks |-> b, allocated_size |-> asz, ret |-> 0, err |-> "none"]
    ELSE
      LET block_size == calculate_block_size(size)
          fits == AllocFits(b, block_size)
      IN  IF fits = {}
          THEN [blocks |-> b, allocated_size |-> asz + size, ret |-> -1,
                err |-> "bad_alloc"]
          ELSE LET addr == SetMin(fits)
                   b1 == SplitDown(b, addr, block_size)
                   b2 == [b1 EXCEPT ![addr].is_free = FALSE, ![addr].allocated = size]
               IN  [blocks |-> b2, allocated_size |-> asz + size,
                    ret |-> addr, err |-> "none"]

\* MemoryAllocator::alloc; the result carries the new map and counter,
\* the returned offset and the exception raised
BuddyAlloc(b, asz, size) ==
    IF size = 0 THEN [blocks |-> b, allocated_size |-> asz, ret |-> 0, err |-> "none"]
    ELSE
      LET block_size == calculate_block_size(size)
          fits == AllocFits(b, block_size)
      IN  IF fits = {}
          THEN [blocks |-> b, allocated_size |-> asz, ret |-> -1, err |-> "bad_alloc"]
          ELSE LET addr == SetMin(fits)
                   b1 == SplitDown(b, addr, block_size)
                   b2 == [b1 EXCEPT ![addr].is_free = FALSE, ![addr].allocated = size]
               IN  [blocks |-> b2, allocated_size |-> asz + size,
                    ret |-> addr, err |-> "none"]

\* mutant: the buddy is always taken to be the right neighbour
BuddyAddr_AlwaysRight(addr, size) == addr + size

\* buddy address of the block at addr of the given size
BuddyAddr(addr, size) ==
    IF BitAnd(addr, size) # 0 THEN addr - size ELSE addr + size

\* mutant: the absorbed buddy is not erased from the map
RECURSIVE MergeLoop_NoErase(_, _, _)
MergeLoop_NoErase(b, it, tsize) ==
    LET size == b[it].size
        buddy_addr == IF BitAnd(it, size) # 0 THEN it - size ELSE it + size
    IN  IF buddy_addr \in DOMAIN b /\ b[buddy_addr].is_free /\ b[buddy_addr].size = size
        THEN LET it1 == IF it > buddy_addr THEN buddy_addr ELSE it
                 b1 == [b EXCEPT ![it1].size = 2 * size]
             IN  IF b1[it1].size < tsize THEN MergeLoop_NoErase(b1, it1, tsize) ELSE b1
        ELSE b

\* mutant: a single merge step instead of the loop
MergeLoop_Once(b, it, tsize) ==
    LET size == b[it].size
        buddy_addr == IF BitAnd(it, size) # 0 THEN it - size ELSE it + size
    IN  IF buddy_addr \in DOMAIN b /\ b[buddy_addr].is_free /\ b[buddy_addr].size = size
        THEN IF it > buddy_addr
             THEN [x \in DOMAIN b \ {it} |->
                      IF x = buddy_addr THEN [b[x] EXCEPT !.size = 2 * size] ELSE b[x]]
             ELSE [x \in DOMAIN b \ {buddy_addr} |->
                      IF x = it THEN [b[x] EXCEPT !.size = 2 * size] ELSE b[x]]
        ELSE b

\* mutant: only a right buddy is merged into its left neighbour
RECURSIVE MergeLoop_RightOnly(_, _, _)
MergeLoop_RightOnly(b, it, tsize) ==
    LET size == b[it].size
        buddy_addr == it - size
    IN  IF /\ BitAnd(it, size) # 0
           /\ buddy_addr \in DOMAIN b /\ b[buddy_addr].is_free /\ b[buddy_addr].size = size
        THEN LET b1 == MapErase([b EXCEPT ![buddy_addr].size = 2 * size], it)
             IN  IF b1[buddy_addr].size < tsize
                 THEN MergeLoop_RightOnly(b1, buddy_addr, tsize) ELSE b1
        ELSE b

\* the do { ... } while (merged && it->second.size < total_size) loop;
\* `it` is the key the iterator points at
RECURSIVE MergeLoop(_, _, _)
MergeLoop(b, it, tsize) ==
    LET size == b[it].size
        addr == it
        buddy_addr == BuddyAddr(addr, size)
    IN  IF buddy_addr \in DOMAIN b /\ b[buddy_addr].is_free /\ b[buddy_addr].size = size
        THEN LET b1 == IF addr > buddy_addr
                       THEN MapErase([b EXCEPT ![buddy_addr].size = 2 * size], addr)
                       ELSE MapErase([b EXCEPT ![addr].size = 2 * size], buddy_addr)
                 it1 == IF addr > buddy_addr THEN buddy_addr ELSE addr
             IN  IF b1[it1].size < tsize THEN MergeLoop(b1, it1, tsize) ELSE b1
        ELSE b

\* MemoryAllocator::dealloc
BuddyDealloc(b, asz, tsize, address) ==
    IF address \notin DOMAIN b \/ b[address].is_free
    THEN [blocks |-> b, allocated_size |-> asz, ret |-> -1,
          err |-> "Invalid deallocation"]
    ELSE LET b1 == [b EXCEPT ![address].is_free = TRUE, ![address].allocated = 0]
         IN  [blocks |-> MergeLoop(b1, address, tsize),
              allocated_size |-> asz - b[address].allocated,
              ret |-> -1, err |-> "none"]


\* mutant: the grid position is the next multiple of block_size above addr
GridPos_Above(addr, block_size) == (addr \div block_size + 1) * block_size

\* grid position of align_alloc: ((addr + block_size - 1) / block_size) * block_size
GridPos(addr, block_size) == ((addr + block_size - 1) \div block_size) * block_size

\* the blocks the ascending scan of align_alloc accepts
AlignFits(b, block_size) ==
    {a \in DOMAIN b :
        /\ b[a].is_free
        /\ b[a].size >= block_size
        /\ (GridPos(a, block_size) - a) + block_size <= b[a].size}

\* while (offset > 0) { halve `block`, advance addr }: `orig` is the key of the
\* map entry the reference `block` is bound to, `addr` the local that advances.
\* offset -= new_size on a size_t wraps when new_size > offset; the loop then
\* never reaches offset == 0 again and does not terminate (hang).
RECURSIVE AlignSplit(_, _, _, _)
AlignSplit(b, orig, addr, offset) ==
    IF offset = 0 THEN [blocks |-> b, addr |-> addr, hang |-> FALSE]
    ELSE LET new_size == ShiftRight(b[orig].size, 1)
             b1 == MapPut(b, addr + new_size, MemoryBlock(new_size, 0, TRUE))
             b2 == [b1 EXCEPT ![orig].size = new_size]
         IN  IF new_size > offset \/ new_size = 0
             THEN [blocks |-> b2, addr |-> addr + new_size, hang |-> TRUE]
             ELSE AlignSplit(b2, orig, addr + new_size, offset - new_size)

\* second loop of align_alloc: halves `block` (entry orig), inserting the upper
\* halves at addr + new_size
RECURSIVE AlignSplitDown(_, _, _, _)
AlignSplitDown(b, orig, addr, block_size) ==
    IF b[orig].size > block_size /\ b[orig].size > MIN_BLOCK_SIZE
    THEN LET new_size == ShiftRight(b[orig].size, 1)
             b1 == MapPut(b, addr + new_size, MemoryBlock(new_size, 0, TRUE))
             b2 == [b1 EXCEPT ![orig].size = new_size]
         IN  AlignSplitDown(b2, orig, addr, block_size)
    ELSE b

\* MemoryAllocator::align_alloc
BuddyAlignAlloc(b, asz, size) ==
    IF size = 0 THEN [blocks |-> b, allocated_size |-> asz, ret |-> 0, err |-> "none"]
    ELSE
      LET block_size == calculate_block_size(size)
          fits == AlignFits(b, block_size)
      IN  IF fits = {}
          THEN [blocks |-> b, allocated_size |-> asz, ret |-> -1, err |-> "bad_alloc"]
          ELSE LET orig == SetMin(fits)
                   offset == GridPos(orig, block_size) - orig
                   s1 == AlignSplit(b, orig, orig, offset)
                   b2 == AlignSplitDown(s1.blocks, orig, s1.addr, block_size)
                   b3 == [b2 EXCEPT ![orig].is_free = FALSE, ![orig].allocated = size]
               IN  IF s1.hang
                   THEN [blocks |-> s1.blocks, allocated_size |-> asz,
                         ret |-> -1, err |-> "hang"]
                   ELSE [blocks |-> b3, allocated_size |-> asz + size,
                         ret |-> s1.addr, err |-> "none"]

(***************************************************************************)
(* History bookkeeping shared by the two engines                           *)
(***************************************************************************)
Call(op, arg, ret, err) == [op |-> op, arg |-> arg, ret |-> ret, err |-> err]

\* an allocation call returned offset ret for a request of size bytes
LiveAfterAlloc(lv, size, ret, err) ==
    IF err = "none" /\ size # 0 THEN lv \cup {<<ret, size>>} ELSE lv

\* the offsets handed out so far, after one more allocation call
ReturnedAfterAlloc(rt, size, ret, err) ==
    IF err = "none" /\ size # 0 THEN rt \cup {ret} ELSE rt

\* dealloc(address) returned normally
LiveAfterDealloc(lv, address, err) ==
    IF err = "none" THEN {e \in lv : e[1] # address} ELSE lv

\* the number of public calls made on the instance
OpLimit ==
    IF engine = "buddy" THEN MaxOps
    ELSE IF total_size \in TlsfFitCtorSizes THEN MaxFitOps
    ELSE MaxTlsfOps

Running ==
    /\ nops < OpLimit
    /\ last.err \notin {"hang", "crash"}

(***************************************************************************)
(* Buddy engine: construction and public operations                        *)
(***************************************************************************)
\* MemoryAllocator::MemoryAllocator
BuddyNew(size) ==
    /\ engine = "buddy"
    /\ total_size = next_power_2(size)
    /\ allocated_size = 0
    /\ blocks = (0 :> MemoryBlock(next_power_2(size), 0, TRUE))
    /\ mem = <<>> /\ segregated_lists = <<>> /\ fl_bitmap = {} /\ sl_bitmap = <<>>
    /\ live = {}
    /\ ever_returned = {}
    /\ last = NoCall
    /\ nops = 0

InitBuddy == \E size \in BuddyCtorSizes : BuddyNew(size)

\* addresses handed to dealloc: every block of the map, the address of the
\* previous dealloc, the end of the arena and an address that is no block
BuddyDeallocArgs ==
    DOMAIN blocks \cup {total_size, 8}
        \cup (IF last.op = "dealloc" THEN {last.arg} ELSE {})

BuddyAllocOp(size) ==
    /\ engine = "buddy" /\ Running
    /\ LET r == BuddyAlloc(blocks, allocated_size, size)
       IN  /\ blocks' = r.blocks
           /\ allocated_size' = r.allocated_size
           /\ live' = LiveAfterAlloc(live, size, r.ret, r.err)
           /\ ever_returned' = ReturnedAfterAlloc(ever_returned, size, r.ret, r.err)
           /\ last' = Call("alloc", size, r.ret, r.err)
    /\ nops' = nops + 1
    /\ UNCHANGED <<engine, total_size, tlsf_vars>>

BuddyAlignAllocOp(size) ==
    /\ engine = "buddy" /\ Running
    /\ LET r == BuddyAlignAlloc(blocks, allocated_size, size)
       IN  /\ blocks' = r.blocks
           /\ allocated_size' = r.allocated_size
           /\ live' = LiveAfterAlloc(live, size, r.ret, r.err)
           /\ ever_returned' = ReturnedAfterAlloc(ever_returned, size, r.ret, r.err)
           /\ last' = Call("align_alloc", size, r.ret, r.err)
    /\ nops' = nops + 1
    /\ UNCHANGED <<engine, total_size, tlsf_vars>>

BuddyDeallocOp(address) ==
    /\ engine = "buddy" /\ Running
    /\ LET r == BuddyDealloc(blocks, allocated_size, total_size, address)
       IN  /\ blocks' = r.blocks
           /\ allocated_size' = r.allocated_size
           /\ live' = LiveAfterDealloc(live, address, r.err)
           /\ ever_returned' = ever_returned
           /\ last' = Call("dealloc", address, r.ret, r.err)
    /\ nops' = nops + 1
    /\ UNCHANGED <<engine, total_size, tlsf_vars>>

NextBuddy ==
    \/ \E size \in BuddyRequests : BuddyAllocOp(size)
    \/ \E size \in BuddyRequests : BuddyAlignAllocOp(size)
    \/ \E address \in BuddyDeallocArgs : BuddyDeallocOp(address)

SpecBuddy == InitBuddy /\ [][NextBuddy]_vars

\* the scenario of the largest request
NextBuddyHuge ==
    \/ \E size \in BuddyHugeRequests : BuddyAllocOp(size)
    \/ \E size \in BuddyHugeRequests : BuddyAlignAllocOp(size)
    \/ \E address \in BuddyDeallocArgs : BuddyDeallocOp(address)

SpecBuddyHuge == InitBuddy /\ [][NextBuddyHuge]_vars

(***************************************************************************)
(* TLSF engine: TLSFAllocator                                              *)
(*                                                                         *)
(* Block headers live inside the arena, so the arena is modelled as the    *)
(* 8-byte words the code has written: a word is [k |-> field, v |-> value] *)
(* with k the header field it was last written as.  Pointers are byte      *)
(* offsets from first_block (first_block itself is offset 0).  A word that *)
(* was never written, or that is read as a field of another type than the  *)
(* one it was written as (a stale header partly overwritten by a newer     *)
(* one), has an indeterminate value: the read yields the corresponding     *)
(* field of the record g, which each public operation draws from Garbage.  *)
(* The reads of another type whose bytes are known all the same (Punned)   *)
(* yield the value of those bytes.                                         *)
(***************************************************************************)
NULL == -1      \* nullptr
WILD == -2      \* a pointer value that is no address of the arena

Fields == {"size", "allocated", "is_free", "prev_physical", "next_free", "prev_free"}

\* offsetof(Block, field)
FieldOff(k) ==
    CASE k = "size" -> 0
      [] k = "allocated" -> 8
      [] k = "is_free" -> 16
      [] k = "prev_physical" -> 24
      [] k = "next_free" -> 32
      [] k = "prev_free" -> 40

FieldType(k) ==
    IF k \in {"size", "allocated"} THEN "size_t"
    ELSE IF k = "is_free" THEN "bool" ELSE "Block*"

GarbageHeader(size, allocated, is_free, ptr) ==
    [size |-> size, allocated |-> allocated, is_free |-> is_free,
     prev_physical |-> ptr, next_free |-> ptr, prev_free |-> ptr]

ZeroFilled == GarbageHeader(0, 0, 0, NULL)

\* what a read of indeterminate memory may yield: zero-filled memory, a header
\* that looks free, one that looks in use, and one with wild pointers
Garbage ==
    { ZeroFilled,
      GarbageHeader(16, 0, 1, NULL),
      GarbageHeader(16, 8, 0, NULL),
      GarbageHeader(16, 0, 1, WILD) }

\* can the word w, last written as a field of another type than that of k, be
\* read as field k with one outcome?  A null pointer is eight zero bytes and
\* reads as 0 or false, the size_t 0 reads as a null pointer, and a bool read
\* from a size_t takes its low byte; a bool leaves the seven bytes after it
\* as they were, and the bytes of a pointer into the arena depend on where
\* the arena lies
Punned(w, k) ==
    \/ FieldType(w.k) = "Block*" /\ w.v = NULL /\ FieldType(k) # "Block*"
    \/ FieldType(w.k) = "size_t" /\ FieldType(k) = "bool"
    \/ FieldType(w.k) = "size_t" /\ w.v = 0 /\ FieldType(k) = "Block*"

\* the value of such a read
PunnedValue(w, k) ==
    IF FieldType(k) = "Block*" THEN NULL
    ELSE IF FieldType(w.k) = "size_t" THEN (IF w.v % 256 # 0 THEN 1 ELSE 0)
    ELSE 0

\* block->field
Rd(m, blk, k, g) ==
    LET a == blk + FieldOff(k)
    IN  IF a \in DOMAIN m /\ FieldType(m[a].k) = FieldType(k) THEN m[a].v
        ELSE IF a \in DOMAIN m /\ Punned(m[a], k) THEN PunnedValue(m[a], k)
        ELSE g[k]

\* block->field = v
Wr(m, blk, k, v) == MapPut(m, blk + FieldOff(k), [k |-> k, v |-> v])

\* is block->field a word written as a field of that type?
Determinate(m, blk, k) ==
    LET a == blk + FieldOff(k)
    IN  a \in DOMAIN m /\ (FieldType(m[a].k) = FieldType(k) \/ Punned(m[a], k))

\* the allocator object apart from its counters; crash: a wild pointer was
\* dereferenced; indet: an indeterminate word may have been read
Heap(m, lists, flb, slb) ==
    [mem |-> m, lists |-> lists, flb |-> flb, slb |-> slb,
     crash |-> FALSE, indet |-> FALSE]

\* record that the fields ks of the header at blk are (about to be) read
Touch(h, blk, ks) ==
    IF \A k \in ks : Determinate(h.mem, blk, k) THEN h ELSE [h EXCEPT !.indet = TRUE]

\* a dereference of a wild pointer ends the process
Crash(h) == [h EXCEPT !.crash = TRUE]

HWr(h, blk, k, v) == [h EXCEPT !.mem = Wr(h.mem, blk, k, v)]

\* segregated_lists[fl][sl]
ListHead(lists, fl, sl) ==
    IF <<fl, sl>> \in DOMAIN lists THEN lists[<<fl, sl>>] ELSE NULL

\* segregated_lists[fl][sl] = block
SetListHead(lists, fl, sl, block) ==
    IF block = NULL THEN MapErase(lists, <<fl, sl>>) ELSE MapPut(lists, <<fl, sl>>, block)

\* sl_bitmap[fl]
SlBits(slb, fl) == IF fl \in DOMAIN slb THEN slb[fl] ELSE {}

\* 1-based index of the highest set bit, 0 for 0
RECURSIVE fls(_)
fls(x) == IF x = 0 THEN 0 ELSE 1 + fls(x \div 2)

\* 1-based index of the lowest set bit of a bitmap given as its set of bits
ffs(bits) == IF bits = {} THEN 0 ELSE SetMin(bits) + 1

\* (size + 7) & ~7
RoundUp8(size) == ((size + 7) \div 8) * 8

\* TLSFAllocator::mapping_indexes, lines 35-40: the first-level index
FirstLevelIndex(size) ==
    LET fl == fls(size) - ctz(MIN_BLOCK_SIZE)
    IN  IF fl < 0 THEN 0 ELSE fl

\* TLSFAllocator::mapping_indexes, lines 42-45: the second-level index
SecondLevelIndex(size, sl_size) ==
    LET sl_mask == sl_size - 1
        masked == BitAnd(size, sl_mask)
    IN  IF masked # 0 THEN (masked * SL_INDEX_COUNT) \div sl_size ELSE 0

\* TLSFAllocator::mapping_indexes, lines 47-53: saturation of the indexes
SaturatedIndexes(fl, sl) ==
    IF fl >= FL_INDEX_COUNT THEN <<FL_INDEX_COUNT - 1, SL_INDEX_COUNT - 1>>
    ELSE IF sl >= SL_INDEX_COUNT THEN <<fl, SL_INDEX_COUNT - 1>>
    ELSE <<fl, sl>>

\* the indexes of a size that is at least MIN_BLOCK_SIZE, given its first level
IndexesAt(size, fl) ==
    SaturatedIndexes(fl, SecondLevelIndex(size, Pow2(fl + ctz(MIN_BLOCK_SIZE))))

\* TLSFAllocator::mapping_indexes
mapping_indexes(size0) ==
    IF size0 < MIN_BLOCK_SIZE
    THEN IndexesAt(MIN_BLOCK_SIZE, FirstLevelIndex(MIN_BLOCK_SIZE))
    ELSE IndexesAt(size0, FirstLevelIndex(size0))

\* TLSFAllocator::mapping_insert once the indexes idx of the size are known
InsertAt(h, idx, block) ==
    LET fl == idx[1]
        sl == idx[2]
        head == ListHead(h.lists, fl, sl)
        m1 == Wr(h.mem, block, "next_free", head)
        m2 == Wr(m1, block, "prev_free", NULL)
        m3 == IF head # NULL THEN Wr(m2, head, "prev_free", block) ELSE m2
    IN  IF fl >= FL_INDEX_COUNT \/ sl >= SL_INDEX_COUNT THEN h
        ELSE IF head = WILD THEN Crash(h)
        ELSE [h EXCEPT !.mem = m3,
                       !.lists = SetListHead(h.lists, fl, sl, block),
                       !.flb = h.flb \cup {fl},
                       !.slb = MapPut(h.slb, fl, SlBits(h.slb, fl) \cup {sl})]

\* TLSFAllocator::mapping_insert
mapping_insert(h, size, block, g) ==
    IF h.crash \/ block = NULL THEN h
    ELSE InsertAt(h, mapping_indexes(size), block)

\* mutant: the first-level bit is never cleared
ClearBitmaps_KeepFirstLevel(h, fl, sl, l1, m3) ==
    LET empty == ListHead(l1, fl, sl) = NULL
        slbits == IF empty THEN SlBits(h.slb, fl) \ {sl} ELSE SlBits(h.slb, fl)
        slb1 == IF empty THEN MapPut(h.slb, fl, slbits) ELSE h.slb
    IN  [h EXCEPT !.mem = m3, !.lists = l1, !.slb = slb1]

\* TLSFAllocator::mapping_remove, lines 98-104: the bitmaps after the unlink
\* left the lists l1 and the memory m3
ClearBitmaps(h, fl, sl, l1, m3) ==
    LET empty == ListHead(l1, fl, sl) = NULL
        slbits == IF empty THEN SlBits(h.slb, fl) \ {sl} ELSE SlBits(h.slb, fl)
        slb1 == IF empty THEN MapPut(h.slb, fl, slbits) ELSE h.slb
        flb1 == IF empty /\ slbits = {} THEN h.flb \ {fl} ELSE h.flb
    IN  [h EXCEPT !.mem = m3, !.lists = l1, !.flb = flb1, !.slb = slb1]

\* TLSFAllocator::mapping_remove once the indexes and the links of the block
\* are known
Unlink(h, idx, block, prev_free, next_free) ==
    LET fl == idx[1]
        sl == idx[2]
        \* unlink from the predecessor or from the head
        m1 == IF prev_free # NULL
              THEN Wr(h.mem, prev_free, "next_free", next_free)
              ELSE h.mem
        l1 == IF prev_free = NULL /\ ListHead(h.lists, fl, sl) = block
              THEN SetListHead(h.lists, fl, sl, next_free)
              ELSE h.lists
        m2 == IF next_free # NULL THEN Wr(m1, next_free, "prev_free", prev_free) ELSE m1
        m3 == Wr(Wr(m2, block, "next_free", NULL), block, "prev_free", NULL)
    IN  IF fl >= FL_INDEX_COUNT \/ sl >= SL_INDEX_COUNT THEN h
        ELSE IF block = WILD \/ prev_free = WILD \/ next_free = WILD THEN Crash(h)
        ELSE ClearBitmaps(h, fl, sl, l1, m3)

\* TLSFAllocator::mapping_remove
mapping_remove(h, size, block, g) ==
    IF h.crash \/ block = NULL THEN h
    ELSE Unlink(Touch(h, block, {"prev_free", "next_free"}), mapping_indexes(size), block,
                Rd(h.mem, block, "prev_free", g), Rd(h.mem, block, "next_free", g))

\* the list head mapping_find accepts for the second-level index sl_index of
\* the first-level class cfl
Probe(h, cfl, sl_index, head, size, g) ==
    IF sl_index >= 0 /\ sl_index < SL_INDEX_COUNT
       /\ head # NULL /\ Rd(h.mem, head, "size", g) >= size
    THEN head
    ELSE NULL

\* the first list head mapping_find accepts in first-level class cfl among the
\* second-level bits `bits`: only the lowest set bit is looked at
FindIn(h, cfl, bits, size, g) ==
    IF bits = {} THEN NULL
    ELSE Probe(h, cfl, ffs(bits) - 1, ListHead(h.lists, cfl, ffs(bits) - 1), size, g)

\* TLSFAllocator::mapping_find, lines 123-133: the scan of the higher classes
FindHigher(h, higher, size, g) ==
    IF higher # {}
    THEN FindIn(h, SetMin(higher), SlBits(h.slb, SetMin(higher)), size, g)
    ELSE NULL

\* TLSFAllocator::mapping_find once the indexes of the size are known
FindFrom(h, fl, sl, size, g) ==
    LET same == FindIn(h, fl, {b \in SlBits(h.slb, fl) : b >= sl}, size, g)
    IN  IF fl >= FL_INDEX_COUNT THEN NULL
        ELSE IF same # NULL THEN same
        ELSE FindHigher(h, {cfl \in (fl + 1)..(FL_INDEX_COUNT - 1) :
                               FindIn(h, cfl, SlBits(h.slb, cfl), size, g) # NULL},
                        size, g)

\* TLSFAllocator::mapping_find
mapping_find(h, size, g) ==
    FindFrom(h, mapping_indexes(size)[1], mapping_indexes(size)[2], size, g)

\* TLSFAllocator::split_block, lines 145-181: a block of bsize bytes is cut
\* down to size bytes
Carve(h, block, bsize, size, tsize, g) ==
    LET total_remaining == bsize - size
        block_end == block + SizeofBlock + bsize
        next_physical == IF block_end < tsize THEN block_end ELSE NULL
        new_block == block + SizeofBlock + size
        m1 == Wr(h.mem, new_block, "size", total_remaining - SizeofBlock)
        m2 == Wr(m1, new_block, "allocated", 0)
        m3 == Wr(m2, new_block, "is_free", 1)
        m4 == Wr(m3, new_block, "prev_physical", block)
        m5 == Wr(m4, new_block, "next_free", NULL)
        m6 == Wr(m5, new_block, "prev_free", NULL)
        m7 == Wr(m6, block, "size", size)
        relink == /\ next_physical # NULL
                  /\ Rd(m7, next_physical, "prev_physical", g) = block
        m8 == IF relink THEN Wr(m7, next_physical, "prev_physical", new_block) ELSE m7
    IN  \* total_remaining is a size_t: a negative difference would wrap to a
        \* huge value and a header far outside the arena would be described
        IF total_remaining < 0 THEN Crash(h)
        ELSE IF total_remaining < MIN_BLOCK_SIZE + SizeofBlock THEN h
        ELSE mapping_insert([h EXCEPT !.mem = m8], total_remaining - SizeofBlock,
                            new_block, g)

\* TLSFAllocator::split_block for a block whose size field reads bsize
SplitSized(h, block, bsize, size0, tsize, g) ==
    IF size0 >= bsize THEN Touch(h, block, {"size"})
    ELSE Carve(IF block + SizeofBlock + bsize < tsize
               THEN Touch(Touch(h, block, {"size"}),
                          block + SizeofBlock + bsize, {"prev_physical"})
               ELSE Touch(h, block, {"size"}),
               block, bsize, Max(RoundUp8(size0), MIN_BLOCK_SIZE), tsize, g)

\* TLSFAllocator::split_block; the block keeps its address, so the result is
\* the allocator state alone
split_block(h, block, size0, tsize, g) ==
    IF h.crash \/ block = NULL THEN h
    ELSE SplitSized(h, block, Rd(h.mem, block, "size", g), size0, tsize, g)

\* TLSFAllocator::merge_block, lines 251-263: prev absorbs block, both already
\* removed from the lists
JoinBackward(h2, block, prev, next_addr, has_next, new_size, tsize, g) ==
    IF h2.crash THEN h2
    ELSE IF new_size > tsize THEN h2
    ELSE mapping_insert(IF has_next
                        THEN HWr(HWr(h2, prev, "size", new_size),
                                 next_addr, "prev_physical", prev)
                        ELSE HWr(h2, prev, "size", new_size),
                        new_size, prev, g)

\* the sizes of prev and block are read again after the removals
RemovedBackward(h2, block, prev, next_addr, has_next, tsize, g) ==
    JoinBackward(Touch(Touch(h2, prev, {"size"}), block, {"size"}),
                 block, prev, next_addr, has_next,
                 Rd(h2.mem, prev, "size", g) + SizeofBlock + Rd(h2.mem, block, "size", g),
                 tsize, g)

\* TLSFAllocator::merge_block, lines 225-268, for a block whose prev_physical
\* and size fields read prev and bsize
BackwardAt(h, block, prev, bsize, tsize, g) ==
    LET psize == Rd(h.mem, prev, "size", g)
        valid == /\ prev >= 0
                 /\ psize >= MIN_BLOCK_SIZE
                 /\ psize <= tsize - prev
                 /\ prev + SizeofBlock + psize = block
                 /\ Rd(h.mem, prev, "is_free", g) = 1
        next_addr == block + SizeofBlock + bsize
        has_next == next_addr + SizeofBlock <= tsize
        broken == has_next /\ Rd(h.mem, next_addr, "prev_physical", g) # block
    IN  IF prev = WILD THEN Crash(h)
        ELSE IF prev # NULL /\ valid /\ broken THEN h
        ELSE IF prev # NULL /\ valid
        THEN RemovedBackward(mapping_remove(mapping_remove(h, psize, prev, g),
                                            bsize, block, g),
                             block, prev, next_addr, has_next, tsize, g)
        ELSE mapping_insert(h, bsize, block, g)

\* the header fields the backward merge reads
TouchBackward(h, block, prev, bsize, tsize) ==
    LET t1 == Touch(h, block, {"prev_physical", "size"})
        t2 == IF prev >= 0 THEN Touch(t1, prev, {"size", "is_free"}) ELSE t1
    IN  IF block + SizeofBlock + bsize + SizeofBlock <= tsize
        THEN Touch(t2, block + SizeofBlock + bsize, {"prev_physical"})
        ELSE t2

\* the backward half of TLSFAllocator::merge_block (lines 225-268), entered
\* with the state the forward half left
MergeBackward(h, block, tsize, g) ==
    IF h.crash THEN h
    ELSE BackwardAt(TouchBackward(h, block, Rd(h.mem, block, "prev_physical", g),
                                  Rd(h.mem, block, "size", g), tsize),
                    block, Rd(h.mem, block, "prev_physical", g),
                    Rd(h.mem, block, "size", g), tsize, g)

\* what the forward half of merge_block leaves: the state, and whether it
\* returned from merge_block
Left(h, returned) == [heap |-> h, returned |-> returned]

\* TLSFAllocator::merge_block, lines 213-221: block absorbs next, already
\* removed from the lists
JoinForward(h1, block, next_next_addr, has_next_next, new_size, tsize) ==
    IF h1.crash THEN Left(h1, TRUE)
    ELSE IF new_size > tsize THEN Left(h1, TRUE)
    ELSE Left(IF has_next_next
              THEN HWr(HWr(h1, block, "size", new_size),
                       next_next_addr, "prev_physical", block)
              ELSE HWr(h1, block, "size", new_size),
              FALSE)

\* the size of next is read again after the removal
RemovedForward(h1, block, bsize, next_addr, next_next_addr, has_next_next, tsize, g) ==
    JoinForward(Touch(h1, next_addr, {"size"}), block, next_next_addr, has_next_next,
                bsize + SizeofBlock + Rd(h1.mem, next_addr, "size", g), tsize)

\* TLSFAllocator::merge_block, lines 190-223, for a block whose size field
\* reads bsize and whose successor's size field reads nsize
ForwardAt(h, block, bsize, nsize, tsize, g) ==
    LET next_addr == block + SizeofBlock + bsize
        has_next == next_addr + SizeofBlock <= tsize
        valid == /\ has_next
                 /\ nsize >= MIN_BLOCK_SIZE
                 /\ nsize <= tsize - next_addr
                 /\ Rd(h.mem, next_addr, "is_free", g) = 1
        next_next_addr == next_addr + SizeofBlock + nsize
        has_next_next == next_next_addr + SizeofBlock <= tsize
        broken == /\ has_next_next
                  /\ Rd(h.mem, next_next_addr, "prev_physical", g) # next_addr
    IN  IF valid /\ broken THEN Left(h, TRUE)
        ELSE IF valid
        THEN RemovedForward(mapping_remove(h, nsize, next_addr, g), block, bsize,
                            next_addr, next_next_addr, has_next_next, tsize, g)
        ELSE Left(h, FALSE)

\* the header fields the forward merge reads
TouchForward(h, block, bsize, nsize, tsize) ==
    LET next_addr == block + SizeofBlock + bsize
        has_next == next_addr + SizeofBlock <= tsize
        t1 == Touch(h, block, {"is_free", "size"})
        t2 == IF has_next THEN Touch(t1, next_addr, {"size", "is_free"}) ELSE t1
    IN  IF has_next /\ next_addr + SizeofBlock + nsize + SizeofBlock <= tsize
        THEN Touch(t2, next_addr + SizeofBlock + nsize, {"prev_physical"})
        ELSE t2

\* the forward half of TLSFAllocator::merge_block (lines 190-223)
MergeForward(h, block, bsize, tsize, g) ==
    ForwardAt(TouchForward(h, block, bsize,
                           Rd(h.mem, block + SizeofBlock + bsize, "size", g), tsize),
              block, bsize, Rd(h.mem, block + SizeofBlock + bsize, "size", g), tsize, g)

\* the backward half follows unless the forward half returned
AfterForward(f, block, tsize, g) ==
    IF f.returned THEN f.heap ELSE MergeBackward(f.heap, block, tsize, g)

\* TLSFAllocator::merge_block
merge_block(h, block, tsize, g) ==
    IF h.crash \/ block = NULL THEN h
    ELSE IF Rd(h.mem, block, "is_free", g) # 1 THEN Touch(h, block, {"is_free"})
    ELSE AfterForward(MergeForward(h, block, Rd(h.mem, block, "size", g), tsize, g),
                      block, tsize, g)

\* outcome of a public TLSF operation
TlsfResult(h, asz, ret, err) ==
    [heap |-> h, allocated_size |-> asz, ret |-> ret,
     err |-> IF h.crash THEN "crash" ELSE err]

\* mapping_find reads the size of list heads
TouchHeads(h) ==
    IF \A c \in DOMAIN h.lists : Determinate(h.mem, h.lists[c], "size")
    THEN h ELSE [h EXCEPT !.indet = TRUE]

\* TLSFAllocator::alloc and align_alloc, the tail: the block is marked in use
\* and returned
MarkAllocated(h2, asz, size, block) ==
    IF h2.crash THEN TlsfResult(h2, asz, -1, "crash")
    ELSE TlsfResult(HWr(HWr(h2, block, "is_free", 0), block, "allocated", size),
                    asz + size, block, "none")

\* TLSFAllocator::alloc, lines 279-295, with the block mapping_find returned
AllocFound(h, asz, tsize, size, required_size, block, g) ==
    IF block = NULL THEN TlsfResult(h, asz, -1, "bad_alloc")
    ELSE MarkAllocated(split_block(mapping_remove(h, Rd(h.mem, block, "size", g), block, g),
                                   block, required_size, tsize, g),
                       asz, size, block)

\* TLSFAllocator::alloc for a size other than 0
AllocSized(h, asz, tsize, size, required_size, g) ==
    AllocFound(h, asz, tsize, size, required_size, mapping_find(h, required_size, g), g)

\* TLSFAllocator::alloc
TlsfAlloc(h, asz, tsize, size, g) ==
    IF size = 0 THEN TlsfResult(h, asz, 0, "none")
    ELSE AllocSized(TouchHeads(h), asz, tsize, size,
                    Max(RoundUp8(size), MIN_BLOCK_SIZE), g)

\* TLSFAllocator::dealloc, lines 308-328, for a block whose size and allocated
\* fields read bsize and balloc
DeallocBlock(h, asz, tsize, block, bsize, balloc, g) ==
    IF \/ block + SizeofBlock + bsize > tsize
       \/ bsize < MIN_BLOCK_SIZE
       \/ bsize > tsize
       \/ balloc > bsize
    THEN TlsfResult(h, asz, -1, "Invalid block detected")
    ELSE IF Rd(h.mem, block, "is_free", g) = 1
    THEN TlsfResult(h, asz, -1, "Double free detected")
    ELSE TlsfResult(merge_block(HWr(HWr(HWr(HWr(h, block, "is_free", 1),
                                            block, "allocated", 0),
                                        block, "next_free", NULL),
                                    block, "prev_free", NULL),
                                block, tsize, g),
                    asz - balloc, -1, "none")

\* TLSFAllocator::dealloc
TlsfDealloc(h, asz, tsize, address, g) ==
    IF address = 0 THEN TlsfResult(h, asz, -1, "none")
    ELSE IF address < 0 \/ address >= tsize
    THEN TlsfResult(h, asz, -1, "Invalid deallocation address")
    ELSE DeallocBlock(Touch(h, address, {"size", "allocated", "is_free"}), asz, tsize,
                      address, Rd(h.mem, address, "size", g),
                      Rd(h.mem, address, "allocated", g), g)

\* (data_addr + required_size - 1) & ~(required_size - 1)
AlignUpMask(data_addr, required_size) ==
    LET x == data_addr + required_size - 1
    IN  x - BitAnd(x, required_size - 1)

\* TLSFAllocator::align_alloc, lines 465-470: the front piece keeps the header
\* of the block that was found
FrontBlock(h1, front, offset, g) ==
    mapping_insert(HWr(HWr(HWr(h1, front, "size", offset - SizeofBlock),
                           front, "is_free", 1),
                       front, "allocated", 0),
                   offset - SizeofBlock, front, g)

\* TLSFAllocator::align_alloc, lines 472-479: the aligned block gets a new
\* header right below aligned_addr
AlignedHeader(f4, front, ablock, required_size) ==
    HWr(HWr(HWr(HWr(HWr(HWr(f4, ablock, "size", required_size),
                            ablock, "is_free", 0),
                        ablock, "allocated", 0),
                    ablock, "prev_physical", front),
                ablock, "next_free", NULL),
            ablock, "prev_free", NULL)

\* TLSFAllocator::align_alloc, lines 482-490, with the block to return
AlignTail(h2, asz, tsize, size, required_size, block, g) ==
    MarkAllocated(split_block(h2, block, required_size, tsize, g), asz, size, block)

\* TLSFAllocator::align_alloc, lines 463-480, with the block found already
\* removed from the lists
AlignPlace(h1, asz, tsize, size, required_size, found, aligned_addr, offset, g) ==
    IF offset > 0 /\ offset >= MIN_BLOCK_SIZE + SizeofBlock
    THEN AlignTail(AlignedHeader(FrontBlock(h1, found, offset, g), found,
                                 aligned_addr - SizeofBlock, required_size),
                   asz, tsize, size, required_size, aligned_addr - SizeofBlock, g)
    ELSE AlignTail(h1, asz, tsize, size, required_size, found, g)

\* TLSFAllocator::align_alloc, lines 449-461, with the block mapping_find
\* returned
AlignFound(h, asz, tsize, size, required_size, found, g) ==
    IF found = NULL THEN TlsfResult(h, asz, -1, "bad_alloc")
    ELSE AlignPlace(mapping_remove(h, Rd(h.mem, found, "size", g), found, g),
                    asz, tsize, size, required_size, found,
                    AlignUpMask(found + SizeofBlock, required_size),
                    AlignUpMask(found + SizeofBlock, required_size)
                        - (found + SizeofBlock),
                    g)

\* TLSFAllocator::align_alloc for a size other than 0
AlignSized(h, asz, tsize, size, required_size, g) ==
    AlignFound(h, asz, tsize, size, required_size, mapping_find(h, required_size, g), g)

\* TLSFAllocator::align_alloc
TlsfAlignAlloc(h, asz, tsize, size, g) ==
    IF size = 0 THEN TlsfResult(h, asz, 0, "none")
    ELSE AlignSized(TouchHeads(h), asz, tsize, size,
                    Max(RoundUp8(size), MIN_BLOCK_SIZE), g)

(***************************************************************************)
(* TLSF engine: construction and public operations                         *)
(***************************************************************************)
EmptyHeap == Heap(<<>>, <<>>, {}, <<>>)

\* the header the constructor writes at first_block, and its insertion
TlsfFirstHeap(size, g) ==
    LET m1 == Wr(<<>>, 0, "size", size)
        m2 == Wr(m1, 0, "allocated", 0)
        m3 == Wr(m2, 0, "is_free", 1)
        m4 == Wr(m3, 0, "prev_physical", NULL)
        m5 == Wr(m4, 0, "next_free", NULL)
        m6 == Wr(m5, 0, "prev_free", NULL)
    IN  mapping_insert([EmptyHeap EXCEPT !.mem = m6], size, 0, g)

\* TLSFAllocator::TLSFAllocator
TlsfNew(size) ==
    LET h == TlsfFirstHeap(size, ZeroFilled)
    IN  /\ engine = "tlsf"
        /\ total_size = size
        /\ allocated_size = 0
        /\ blocks = <<>>
        /\ mem = h.mem
        /\ segregated_lists = h.lists
        /\ fl_bitmap = h.flb
        /\ sl_bitmap = h.slb
        /\ live = {}
        /\ ever_returned = {}
        /\ last = NoCall
        /\ nops = 0

InitTlsf == \E size \in TlsfCtorSizes : TlsfNew(size)

CurHeap == Heap(mem, segregated_lists, fl_bitmap, sl_bitmap)

\* the draws of g an operation is tried with: when its run on zero-filled
\* memory read no indeterminate word the draw cannot matter
Draws(r0) == IF r0.heap.indet THEN Garbage ELSE {ZeroFilled}

\* the common tail of the TLSF actions: install the outcome r of `op`
TlsfInstall(op, arg, r) ==
    /\ live' = IF op = "dealloc" THEN LiveAfterDealloc(live, arg, r.err)
               ELSE LiveAfterAlloc(live, arg, r.ret, r.err)
    /\ ever_returned' = IF op = "dealloc" THEN ever_returned
                        ELSE ReturnedAfterAlloc(ever_returned, arg, r.ret, r.err)
    /\ mem' = r.heap.mem
    /\ segregated_lists' = r.heap.lists
    /\ fl_bitmap' = r.heap.flb
    /\ sl_bitmap' = r.heap.slb
    /\ allocated_size' = r.allocated_size
    /\ last' = Call(op, arg, r.ret, r.err)
    /\ nops' = nops + 1
    /\ UNCHANGED <<engine, total_size, buddy_vars>>

\* addresses handed to dealloc: 0, every address where a header was ever
\* started, the address of the previous dealloc, an address inside the first
\* header, one in never-written memory and the end of the arena
TlsfDeallocArgs ==
    {a \in DOMAIN mem : mem[a].k = "size"}
        \cup {0, 8, total_size - 8, total_size}
        \cup (IF last.op = "dealloc" THEN {last.arg} ELSE {})

TlsfAllocOp(size) ==
    /\ engine = "tlsf" /\ Running
    /\ \E g \in Draws(TlsfAlloc(CurHeap, allocated_size, total_size, size, ZeroFilled)) :
         TlsfInstall("alloc", size,
                     TlsfAlloc(CurHeap, allocated_size, total_size, size, g))

TlsfAlignAllocOp(size) ==
    /\ engine = "tlsf" /\ Running
    /\ \E g \in Draws(TlsfAlignAlloc(CurHeap, allocated_size, total_size, size, ZeroFilled)) :
         TlsfInstall("align_alloc", size,
                     TlsfAlignAlloc(CurHeap, allocated_size, total_size, size, g))

TlsfDeallocOp(address) ==
    /\ engine = "tlsf" /\ Running
    /\ \E g \in Draws(TlsfDealloc(CurHeap, allocated_size, total_size, address, ZeroFilled)) :
         TlsfInstall("dealloc", address,
                     TlsfDealloc(CurHeap, allocated_size, total_size, address, g))

\* alloc and dealloc only
NextTlsf ==
    \/ \E size \in TlsfRequests : TlsfAllocOp(size)
    \/ \E address \in TlsfDeallocArgs : TlsfDeallocOp(address)

SpecTlsf == InitTlsf /\ [][NextTlsf]_vars

\* alloc, align_alloc and dealloc
NextTlsfAlign ==
    \/ \E size \in TlsfRequests : TlsfAllocOp(size)
    \/ \E size \in TlsfRequests : TlsfAlignAllocOp(size)
    \/ \E address \in TlsfDeallocArgs : TlsfDeallocOp(address)

SpecTlsfAlign == InitTlsf /\ [][NextTlsfAlign]_vars

\* addresses a client that keeps to the interface hands to dealloc: the
\* offsets of its live allocations, and the one it has just deallocated
ClientDeallocArgs ==
    {e[1] : e \in live} \cup (IF last.op = "dealloc" THEN {last.arg} ELSE {})

\* alloc and dealloc only, dealloc on returned offsets only
NextTlsfClient ==
    \/ \E size \in TlsfRequests : TlsfAllocOp(size)
    \/ \E address \in ClientDeallocArgs : TlsfDeallocOp(address)

SpecTlsfClient == InitTlsf /\ [][NextTlsfClient]_vars

\* alloc, align_alloc and dealloc, dealloc on returned offsets only
NextTlsfAlignClient ==
    \/ \E size \in TlsfRequests : TlsfAllocOp(size)
    \/ \E size \in TlsfRequests : TlsfAlignAllocOp(size)
    \/ \E address \in ClientDeallocArgs : TlsfDeallocOp(address)

SpecTlsfAlignClient == InitTlsf /\ [][NextTlsfAlignClient]_vars

\* the fit-search scenario: alloc and dealloc, dealloc on returned offsets only
InitTlsfFit == \E size \in TlsfFitCtorSizes : TlsfNew(size)

NextTlsfFit ==
    \/ \E size \in TlsfFitRequests : TlsfAllocOp(size)
    \/ \E address \in ClientDeallocArgs : TlsfDeallocOp(address)

SpecTlsfFit == InitTlsfFit /\ [][NextTlsfFit]_vars

\* the two-allocation scenario: alloc and dealloc, dealloc on returned
\* offsets only
InitTlsfPair == \E size \in TlsfPairCtorSizes : TlsfNew(size)

NextTlsfPair ==
    \/ \E size \in TlsfPairRequests : TlsfAllocOp(size)
    \/ \E address \in ClientDeallocArgs : TlsfDeallocOp(address)

SpecTlsfPair == InitTlsfPair /\ [][NextTlsfPair]_vars

\* mapping_indexes on its own: a call of the private function on a TLSF
\* allocator, which reads and changes no member; the outcome is the pair
\* <<fl, sl>>
MappingIndexesOp(size) ==
    /\ engine = "tlsf"
    /\ last' = Call("mapping_indexes", size, mapping_indexes(size), "none")
    /\ UNCHANGED <<engine, total_size, allocated_size, blocks, mem,
                   segregated_lists, fl_bitmap, sl_bitmap, live,
                   ever_returned, nops>>

NextMapping == \E size \in 1..MaxMappingSize : MappingIndexesOp(size)

SpecMapping == InitTlsf /\ [][NextMapping]_vars

\* either engine, under every public operation, dealloc on returned offsets
\* only in the TLSF engine
InitEither == InitBuddy \/ \E size \in TlsfStatCtorSizes : TlsfNew(size)

NextEither == NextBuddy \/ NextTlsfAlignClient

SpecEither == InitEither /\ [][NextEither]_vars

(***************************************************************************)
(* Statistics of the two engines.  The functions return a double computed  *)
(* by one division; the model keeps the dividend and the divisor, a        *)
(* result of 0.0 being 0 / 1.                                              *)
(***************************************************************************)
Ratio(num, den) == [num |-> num, den |-> den]

\* total_wasted of MemoryAllocator::get_internal_fragmentation over the
\* blocks with a key in S; allocated never exceeds size in a block in use,
\* so the size_t difference does not wrap
RECURSIVE BuddyWasted(_, _)
BuddyWasted(b, S) ==
    IF S = {} THEN 0
    ELSE LET a == SetMin(S)
         IN  (IF ~b[a].is_free THEN b[a].size - b[a].allocated ELSE 0)
                 + BuddyWasted(b, S \ {a})

\* MemoryAllocator::get_internal_fragmentation
BuddyInternalFragmentation(b, asz) ==
    IF asz = 0 THEN Ratio(0, 1)
    ELSE Ratio(BuddyWasted(b, DOMAIN b), asz)

\* the walk over the physical chain the three statistics functions of the
\* TLSF engine share: the offsets of the headers they process from cur on,
\* the first max_address of which they stop at when max_address is not 0
RECURSIVE TlsfWalk(_, _, _, _, _)
TlsfWalk(m, cur, tsize, max_address, g) ==
    IF cur + SizeofBlock > tsize THEN <<>>
    ELSE LET size == Rd(m, cur, "size", g)
         IN  IF size = 0 \/ size > tsize THEN <<>>
             ELSE IF max_address # 0 /\ cur >= max_address THEN <<>>
             ELSE IF cur + SizeofBlock + size > tsize THEN <<cur>>
             ELSE <<cur>> \o TlsfWalk(m, cur + SizeofBlock + size, tsize, max_address, g)

\* total_wasted of TLSFAllocator::get_internal_fragmentation over the headers
\* of the walk w
RECURSIVE TlsfWasted(_, _, _)
TlsfWasted(m, w, g) ==
    IF w = <<>> THEN 0
    ELSE (IF Rd(m, Head(w), "is_free", g) = 0
          THEN Rd(m, Head(w), "size", g) - Rd(m, Head(w), "allocated", g)
          ELSE 0)
             + TlsfWasted(m, Tail(w), g)

\* TLSFAllocator::get_internal_fragmentation
TlsfInternalFragmentation(m, tsize, asz, g) ==
    IF asz = 0 THEN Ratio(0, 1)
    ELSE Ratio(TlsfWasted(m, TlsfWalk(m, 0, tsize, 0, g), g), asz)

\* MemoryAllocator::find_last_allocated_address
BuddyFindLastAllocatedAddress(b) ==
    LET used == {a \in DOMAIN b : ~b[a].is_free}
    IN  IF used = {} THEN 0 ELSE SetMax(used) + b[SetMax(used)].size

\* the keys the loops of calculate_external_fragmentation visit before the
\* break at max_address
BuddyScanned(b, max_address) ==
    {a \in DOMAIN b : max_address = 0 \/ a < max_address}

\* total_free over the blocks with a key in S
RECURSIVE BuddyTotalFree(_, _)
BuddyTotalFree(b, S) ==
    IF S = {} THEN 0
    ELSE LET a == SetMin(S)
         IN  (IF b[a].is_free THEN b[a].size ELSE 0) + BuddyTotalFree(b, S \ {a})

\* MemoryAllocator::get_block_size_index
get_block_size_index(size) == ctz(size) - ctz(MIN_BLOCK_SIZE)

\* std::array<size_t, BLOCK_SIZES_COUNT> actual_blocks{}: the count of class
\* k is at position k + 1
NoBlocks == [k \in 1..BLOCK_SIZES_COUNT |-> 0]

\* first pass: the free blocks with a key in S are counted by size class
RECURSIVE BuddyCounts(_, _, _)
BuddyCounts(b, S, actual_blocks) ==
    IF S = {} THEN actual_blocks
    ELSE LET a == SetMin(S)
         IN  BuddyCounts(b, S \ {a},
                         IF b[a].is_free
                         THEN [actual_blocks EXCEPT
                                  ![get_block_size_index(b[a].size) + 1] = @ + 1]
                         ELSE actual_blocks)

\* mutant: two free blocks of the next smaller class count as one block
RECURSIVE BuddyActual_Pairs(_, _, _)
BuddyActual_Pairs(actual_blocks, i, j) ==
    IF j >= BLOCK_SIZES_COUNT THEN (IF i > 0 THEN actual_blocks[i] \div 2 ELSE 0)
    ELSE (IF actual_blocks[j + 1] > 0
          THEN actual_blocks[j + 1] * Pow2(j - i)
          ELSE 0)
             + BuddyActual_Pairs(actual_blocks, i, j + 1)

\* second pass: actual_blocks[i] becomes the count of class i plus, for
\* every larger class j from j on, its count times 1 << (j - i)
RECURSIVE BuddyActual(_, _, _)
BuddyActual(actual_blocks, i, j) ==
    IF j >= BLOCK_SIZES_COUNT THEN 0
    ELSE (IF actual_blocks[j + 1] > 0
          THEN actual_blocks[j + 1] * Pow2(j - i)
          ELSE 0)
             + BuddyActual(actual_blocks, i, j + 1)

\* third pass from class i on: weighted_sum as a fraction, and total_weight
RECURSIVE BuddyWeighted(_, _, _)
BuddyWeighted(actual_blocks, total_free, i) ==
    IF i >= BLOCK_SIZES_COUNT THEN [num |-> 0, den |-> 1, weight |-> 0]
    ELSE IF MIN_BLOCK_SIZE * Pow2(i) > total_free THEN [num |-> 0, den |-> 1, weight |-> 0]
    ELSE LET rest == BuddyWeighted(actual_blocks, total_free, i + 1)
             potential_blocks == total_free \div (MIN_BLOCK_SIZE * Pow2(i))
         IN  IF potential_blocks = 0 THEN rest
             ELSE [num |-> BuddyActual(actual_blocks, i, i) * rest.den
                               + rest.num * potential_blocks,
                   den |-> potential_blocks * rest.den,
                   weight |-> rest.weight + 1]

\* the return statement: 1.0 - weighted_sum / total_weight
OneMinusMean(s) ==
    IF s.weight > 0 THEN Ratio(s.weight * s.den - s.num, s.weight * s.den)
    ELSE Ratio(0, 1)

\* MemoryAllocator::calculate_external_fragmentation once total_free and the
\* counts of the first pass are known
BuddyExternalOf(actual_blocks, total_free) ==
    IF total_free = 0 THEN Ratio(0, 1)
    ELSE OneMinusMean(BuddyWeighted(actual_blocks, total_free, 0))

\* MemoryAllocator::calculate_external_fragmentation
BuddyExternalFragmentation(b, asz, max_address) ==
    IF DOMAIN b = {} \/ asz = 0 THEN Ratio(0, 1)
    ELSE BuddyExternalOf(BuddyCounts(b, BuddyScanned(b, max_address), NoBlocks),
                         BuddyTotalFree(b, BuddyScanned(b, max_address)))

\* TLSFAllocator::find_last_allocated_address over the headers of the walk w
RECURSIVE TlsfLastAllocated(_, _, _)
TlsfLastAllocated(m, w, g) ==
    IF w = <<>> THEN 0
    ELSE IF Rd(m, w[Len(w)], "is_free", g) = 0
    THEN w[Len(w)] + SizeofBlock + Rd(m, w[Len(w)], "size", g)
    ELSE TlsfLastAllocated(m, SubSeq(w, 1, Len(w) - 1), g)

\* TLSFAllocator::find_last_allocated_address
TlsfFindLastAllocatedAddress(m, tsize, g) ==
    TlsfLastAllocated(m, TlsfWalk(m, 0, tsize, 0, g), g)

\* the free blocks among the headers of the walk w
TlsfFreeOf(m, w, g) ==
    {w[k] : k \in {n \in 1..Len(w) : Rd(m, w[n], "is_free", g) # 0}}

\* free_blocks[fl]: the free blocks of the set S whose size maps to fl
TlsfCount(m, S, fl, g) ==
    Cardinality({a \in S : mapping_indexes(Rd(m, a, "size", g))[1] = fl})

\* total_free over the free blocks S
RECURSIVE TlsfTotalFree(_, _, _)
TlsfTotalFree(m, S, g) ==
    IF S = {} THEN 0
    ELSE Rd(m, SetMin(S), "size", g) + TlsfTotalFree(m, S \ {SetMin(S)}, g)

\* largest_free over the free blocks S
TlsfLargestFree(m, S, g) ==
    IF S = {} THEN 0 ELSE SetMax({Rd(m, a, "size", g) : a \in S})

\* actual_blocks of class i: free_blocks[i] plus, for every class j up to
\* max_fl, free_blocks[j] * (1 << (j - i)); summed from j on
RECURSIVE TlsfActual(_, _, _, _, _, _)
TlsfActual(m, S, i, j, max_fl, g) ==
    IF j > max_fl THEN 0
    ELSE TlsfCount(m, S, j, g) * Pow2(j - i) + TlsfActual(m, S, i, j + 1, max_fl, g)

\* mutant: the ratio is not capped
TlsfRatio_NoCap(actual_blocks, potential_blocks) ==
    Ratio(actual_blocks, potential_blocks)

\* ratio = actual_blocks / potential_blocks; if (ratio > 1.0) ratio = 1.0
TlsfRatio(actual_blocks, potential_blocks) ==
    IF actual_blocks > potential_blocks THEN Ratio(1, 1)
    ELSE Ratio(actual_blocks, potential_blocks)

\* one round of the loop over the classes: block_size * ratio is added to
\* weighted_sum and block_size to total_weight
TlsfAddClass(rest, block_size, ratio) ==
    [num |-> block_size * ratio.num * rest.den + rest.num * ratio.den,
     den |-> ratio.den * rest.den,
     weight |-> rest.weight + block_size]

\* the loop over the classes from class i on: weighted_sum as a fraction, and
\* total_weight
RECURSIVE TlsfWeighted(_, _, _, _, _, _, _)
TlsfWeighted(m, S, total_free, largest_free, max_fl, i, g) ==
    IF i > max_fl THEN [num |-> 0, den |-> 1, weight |-> 0]
    ELSE IF MIN_BLOCK_SIZE * Pow2(i) > largest_free THEN [num |-> 0, den |-> 1, weight |-> 0]
    ELSE IF total_free \div (MIN_BLOCK_SIZE * Pow2(i)) = 0
    THEN TlsfWeighted(m, S, total_free, largest_free, max_fl, i + 1, g)
    ELSE TlsfAddClass(TlsfWeighted(m, S, total_free, largest_free, max_fl, i + 1, g),
                      MIN_BLOCK_SIZE * Pow2(i),
                      TlsfRatio(TlsfActual(m, S, i, i, max_fl, g),
                                total_free \div (MIN_BLOCK_SIZE * Pow2(i))))

\* TLSFAllocator::calculate_external_fragmentation once the free blocks S
\* of the walk are known
TlsfExternalOf(m, S, g) ==
    IF TlsfTotalFree(m, S, g) = 0 THEN Ratio(0, 1)
    ELSE OneMinusMean(TlsfWeighted(m, S, TlsfTotalFree(m, S, g),
                                   TlsfLargestFree(m, S, g),
                                   IF fls(TlsfLargestFree(m, S, g)) >= FL_INDEX_COUNT
                                   THEN FL_INDEX_COUNT - 1
                                   ELSE fls(TlsfLargestFree(m, S, g)),
                                   0, g))

\* TLSFAllocator::calculate_external_fragmentation
TlsfExternalFragmentation(m, tsize, asz, max_address, g) ==
    IF asz = 0 THEN Ratio(0, 1)
    ELSE TlsfExternalOf(m, TlsfFreeOf(m, TlsfWalk(m, 0, tsize, max_address, g), g), g)

(***************************************************************************)
(* Properties of the buddy engine                                          *)
(***************************************************************************)
\* the key that follows a in the ordered map
NextKey(a) == SetMin({k \in DOMAIN blocks : k > a})

\* smallest power of two that is >= r (r >= 1)
SmallestPow2AtLeast(r) ==
    CHOOSE p \in {Pow2(i) : i \in 0..12} :
        /\ p >= r
        /\ \A q \in {Pow2(i) : i \in 0..12} : q >= r => p <= q

\* block size the buddy engine owes a request of r bytes.  For a request
\* above 2^63 the power of two is 2^64; it is held as 2^30, which like 2^64
\* exceeds every size and offset of an arena.
BuddyWant(r) ==
    IF r < 0 THEN Pow2(30) ELSE Max(SmallestPow2AtLeast(r), MIN_BLOCK_SIZE)

\* C1: in every reachable state of the buddy engine the blocks of the map,
\* taken in ascending offset order, partition [0, N): the first block starts at
\* 0, every block starts where its predecessor ends, the last one ends at N.
C1_Tiling ==
    engine = "buddy" =>
        /\ 0 \in DOMAIN blocks
        /\ \A a \in DOMAIN blocks :
              IF a = SetMax(DOMAIN blocks)
              THEN a + blocks[a].size = total_size
              ELSE NextKey(a) = a + blocks[a].size

\* C1 witness: an arena cut into at least four blocks, some in use and some
\* free, after a dealloc that succeeded
C1_Witness ==
    /\ engine = "buddy"
    /\ Cardinality(DOMAIN blocks) >= 4
    /\ last.op = "dealloc" /\ last.err = "none"
    /\ \E a \in DOMAIN blocks : blocks[a].is_free
    /\ Cardinality({a \in DOMAIN blocks : ~blocks[a].is_free}) >= 2

\* C2: buddy engine constructed with N >= MIN: in every reachable state every
\* block's size is a power of two within [MIN, N] and its offset is a multiple
\* of its size.
C2_BuddyShape ==
    (engine = "buddy" /\ total_size >= MIN_BLOCK_SIZE) =>
        \A a \in DOMAIN blocks :
            /\ blocks[a].size \in {Pow2(i) : i \in 0..12}
            /\ MIN_BLOCK_SIZE <= blocks[a].size
            /\ blocks[a].size <= total_size
            /\ a % blocks[a].size = 0

\* C2 witness: after a coalescing dealloc the map holds blocks of three
\* different sizes
C2_Witness ==
    /\ engine = "buddy" /\ total_size >= MIN_BLOCK_SIZE
    /\ last.op = "dealloc" /\ last.err = "none"
    /\ Cardinality({blocks[a].size : a \in DOMAIN blocks}) >= 3
    /\ \E a \in DOMAIN blocks : a # 0 /\ blocks[a].is_free /\ blocks[a].size = 32

\* C3: buddy engine: whenever every offset that was successfully allocated has
\* been deallocated, the map is the single block (0, N, free, allocated 0) and
\* allocated_size is 0.
C3_BuddyCoalesced ==
    (engine = "buddy" /\ live = {}) =>
        /\ blocks = (0 :> MemoryBlock(total_size, 0, TRUE))
        /\ allocated_size = 0

\* C3 witness: the last of at least two live allocations has just been freed
C3_Witness ==
    /\ engine = "buddy" /\ live = {}
    /\ last.op = "dealloc" /\ last.err = "none" /\ last.arg # 0
    /\ nops >= 4

\* C7: buddy engine: every offset returned by a successful align_alloc(r),
\* r > 0, is a multiple of max(nextPow2(r), MIN).
C7_BuddyAligned ==
    (engine = "buddy" /\ last.op = "align_alloc" /\ last.err = "none" /\ last.arg # 0)
        => last.ret % BuddyWant(last.arg) = 0

\* C7 witness: align_alloc(33) answered with a non-zero offset while smaller
\* blocks are in use below it
C7_Witness ==
    /\ engine = "buddy"
    /\ last.op = "align_alloc" /\ last.err = "none" /\ last.arg = 33
    /\ last.ret > 0
    /\ \E a \in DOMAIN blocks : a < last.ret /\ ~blocks[a].is_free /\ blocks[a].size = 16

(***************************************************************************)
(* Properties of both engines and of the TLSF engine                       *)
(***************************************************************************)
\* the class of the error taxonomy an exception of the code belongs to: the
\* buddy engine has the single std::invalid_argument("Invalid deallocation"),
\* thrown for an unknown offset and for an already free block alike
ErrorKind(err) ==
    CASE err = "none" -> "none"
      [] err = "bad_alloc" -> "OutOfMemory"
      [] err = "Double free detected" -> "DoubleFree"
      [] err \in {"Invalid deallocation", "Invalid deallocation address",
                  "Invalid block detected"} -> "InvalidFree"
      [] OTHER -> err

\* end of the byte range of the block at offset p
RangeEnd(p) ==
    IF engine = "buddy" THEN p + blocks[p].size
    ELSE p + SizeofBlock + Rd(mem, p, "size", ZeroFilled)

\* the block that was handed out at offset p is free in the state (b, m)
IsFreeIn(b, m, p) ==
    IF engine = "buddy"
    THEN \E a \in DOMAIN b : a <= p /\ p < a + b[a].size /\ b[a].is_free
    ELSE Rd(m, p, "is_free", ZeroFilled) = 1

RECURSIVE SumRequested(_)
SumRequested(lv) ==
    IF lv = {} THEN 0
    ELSE LET e == CHOOSE x \in lv : TRUE
         IN  e[2] + SumRequested(lv \ {e})

\* C4: the byte ranges of any two distinct live allocations (buddy
\* [p, p+size), TLSF [p, p+sizeof(Block)+size)) are disjoint, after any
\* sequence of alloc, align_alloc and dealloc calls.
C4_NonOverlap ==
    \A e1 \in live : \A e2 \in live :
        e1 # e2 => (RangeEnd(e1[1]) <= e2[1] \/ RangeEnd(e2[1]) <= e1[1])

\* C5: a dealloc(p) of a live allocation p made by alloc(r), r > 0, raises no
\* error, leaves the block free and decreases allocated_space by r.
C5_RoundTrip ==
    [][(nops' = nops + 1 /\ last'.op = "dealloc") =>
          \A e \in live :
              e[1] = last'.arg =>
                  /\ last'.err = "none"
                  /\ allocated_size' = allocated_size - e[2]
                  /\ IsFreeIn(blocks', mem', e[1])]_vars

\* C6: a dealloc(p) issued right after a dealloc(p) that returned normally
\* raises the DoubleFree error, an outcome other than InvalidFree, and
\* leaves the allocator state unchanged.
C6_DoubleFree ==
    [][(/\ nops' = nops + 1
        /\ last.op = "dealloc" /\ last.err = "none"
        /\ last'.op = "dealloc" /\ last'.arg = last.arg) =>
          /\ ErrorKind(last'.err) = "DoubleFree"
          /\ UNCHANGED <<allocated_size, blocks, mem, segregated_lists,
                         fl_bitmap, sl_bitmap>>]_vars

\* C8: the payload address (returned offset + sizeof(Block)) of every
\* successful TLSF align_alloc(r), r > 0, is a multiple of
\* max(roundUp8(r), MIN_BLOCK_SIZE).
C8_TlsfAligned ==
    (engine = "tlsf" /\ last.op = "align_alloc" /\ last.err = "none" /\ last.arg # 0) =>
        (last.ret + SizeofBlock) % Max(RoundUp8(last.arg), MIN_BLOCK_SIZE) = 0

\* C9: after every operation allocated_space is the sum of the requested
\* sizes of the allocations returned and not yet deallocated by a dealloc
\* that returned normally.
C9_CounterAgreement == allocated_size = SumRequested(live)

\* C10: TLSF, alloc and dealloc only: once every returned offset has been
\* deallocated the arena is a single free block, at offset 0, of payload
\* size N - sizeof(Block).
C10_TlsfCoalesced ==
    (engine = "tlsf" /\ live = {}) =>
        /\ Rd(mem, 0, "is_free", ZeroFilled) = 1
        /\ Rd(mem, 0, "size", ZeroFilled) = total_size - SizeofBlock

\* the physical chain as the statistics walks of the code follow it: the
\* header offsets met from offset a on, advancing by sizeof(Block) + size
\* while a header starts below total_size
RECURSIVE ChainWalk(_, _, _)
ChainWalk(m, a, tsize) ==
    IF a >= tsize \/ ~Determinate(m, a, "size") THEN <<>>
    ELSE <<a>> \o ChainWalk(m, a + SizeofBlock + Rd(m, a, "size", ZeroFilled), tsize)

\* the offset at which the walk of the chain arrives
ChainEnd(m, tsize) ==
    LET w == ChainWalk(m, 0, tsize)
    IN  IF w = <<>> THEN 0
        ELSE w[Len(w)] + SizeofBlock + Rd(m, w[Len(w)], "size", ZeroFilled)

\* C11: TLSF engine: in every reachable state, the initial one included, the
\* walk from the header at offset 0 that advances by sizeof(Block) + size
\* arrives exactly at offset N, the capacity given to the constructor.
C11_ChainReachesN ==
    engine = "tlsf" => ChainEnd(mem, total_size) = total_size

\* C12: TLSF engine, alloc and dealloc only: the prev_physical field of every
\* block of the physical chain is null for the first block and is otherwise
\* the offset of the block right before it, the last block of the chain
\* included.
C12_PrevPhysical ==
    engine = "tlsf" =>
        LET w == ChainWalk(mem, 0, total_size)
        IN  \A i \in 1..Len(w) :
                Rd(mem, w[i], "prev_physical", ZeroFilled)
                    = (IF i = 1 THEN NULL ELSE w[i - 1])

\* C13: in either engine every successful alloc(req) with req > 0 returns a
\* strictly positive offset inside the arena; the value 0 is returned for the
\* zero-size request only.
C13_PositiveOffset ==
    (last.op = "alloc" /\ last.err = "none" /\ last.arg # 0) =>
        (last.ret > 0 /\ last.ret < total_size)

\* C14: in either engine dealloc(0) is a no-op in every reachable state: it
\* raises no error and leaves the blocks, the free index and allocated_space
\* unchanged.
C14_DeallocZeroNoOp ==
    [][(nops' = nops + 1 /\ last'.op = "dealloc" /\ last'.arg = 0) =>
          /\ last'.err = "none"
          /\ UNCHANGED <<allocated_size, blocks, mem, segregated_lists,
                         fl_bitmap, sl_bitmap>>]_vars

\* want of the TLSF engine: max(roundUp8(req), MIN_BLOCK_SIZE)
TlsfWant(req) == Max(RoundUp8(req), MIN_BLOCK_SIZE)

\* the free blocks of the physical chain whose payload size is at least want
FreeFits(m, tsize, want) ==
    {a \in {ChainWalk(m, 0, tsize)[i] : i \in 1..Len(ChainWalk(m, 0, tsize))} :
        /\ Rd(m, a, "is_free", ZeroFilled) = 1
        /\ Rd(m, a, "size", ZeroFilled) >= want}

\* C15: TLSF engine: alloc(req), req > 0, raises OutOfMemory only when no
\* free block of the arena has a payload size of at least
\* max(roundUp8(req), MIN_BLOCK_SIZE); whenever such a block exists the call
\* succeeds.
C15_OomOnlyWithoutFit ==
    [][(/\ nops' = nops + 1 /\ engine = "tlsf"
        /\ last'.op = "alloc" /\ last'.arg # 0) =>
          IF FreeFits(mem, total_size, TlsfWant(last'.arg)) = {}
          THEN ErrorKind(last'.err) = "OutOfMemory"
          ELSE last'.err = "none"]_vars

\* C16: buddy engine: alloc(req), req > 0, with want = max(nextPow2(req), MIN)
\* succeeds exactly when some free block has size >= want, and then returns
\* the lowest offset among the free blocks of size >= want; otherwise it
\* raises OutOfMemory.
C16_BuddyFirstFit ==
    [][(/\ nops' = nops + 1 /\ engine = "buddy"
        /\ last'.op = "alloc" /\ last'.arg # 0) =>
          LET fits == {a \in DOMAIN blocks :
                          blocks[a].is_free /\ blocks[a].size >= BuddyWant(last'.arg)}
          IN  IF fits = {}
              THEN ErrorKind(last'.err) = "OutOfMemory"
              ELSE /\ last'.err = "none"
                   /\ last'.ret \in fits
                   /\ \A a \in fits : last'.ret <= a]_vars

\* C16 witness: alloc(33) was answered with a block above a free block that
\* is too small for it
C16_Witness ==
    /\ engine = "buddy"
    /\ last.op = "alloc" /\ last.arg = 33 /\ last.err = "none"
    /\ \E a \in DOMAIN blocks :
          a < last.ret /\ blocks[a].is_free /\ blocks[a].size < 64

\* C17: in either engine dealloc(a), a # 0, of an offset that no alloc or
\* align_alloc call has ever returned raises InvalidFree and leaves the
\* allocator state unchanged.
C17_NeverReturned ==
    [][(/\ nops' = nops + 1
        /\ last'.op = "dealloc" /\ last'.arg # 0
        /\ last'.arg \notin ever_returned) =>
          /\ ErrorKind(last'.err) = "InvalidFree"
          /\ UNCHANGED <<allocated_size, blocks, mem, segregated_lists,
                         fl_bitmap, sl_bitmap>>]_vars

\* the candidate block of the TLSF align_alloc, found by mapping_find, cannot
\* take an aligned block: the gap in front of the aligned payload address is
\* too small for a front block, or the aligned block ends beyond the candidate
TlsfCannotPlace(m, found, want) ==
    LET data == found + SizeofBlock
        aligned == ((data + want - 1) \div want) * want
    IN  \/ (aligned # data /\ aligned - data < MIN_BLOCK_SIZE + SizeofBlock)
        \/ aligned + want > data + Rd(m, found, "size", ZeroFilled)

\* the buddy align_alloc has free blocks of the wanted size, none of which can
\* take a block at a multiple of want
BuddyCannotPlace(b, want) ==
    /\ \E a \in DOMAIN b : b[a].is_free /\ b[a].size >= want
    /\ \A a \in DOMAIN b :
          (b[a].is_free /\ b[a].size >= want) =>
              ((a + want - 1) \div want) * want + want > a + b[a].size

\* C18: in either engine align_alloc raises InvalidArgument when it cannot
\* place an aligned block within the candidate region it selected; it returns
\* no block in that situation.
C18_InvalidArgument ==
    [][(/\ nops' = nops + 1
        /\ last'.op = "align_alloc" /\ last'.arg # 0
        /\ IF engine = "buddy"
           THEN BuddyCannotPlace(blocks, BuddyWant(last'.arg))
           ELSE /\ mapping_find(CurHeap, TlsfWant(last'.arg), ZeroFilled) # NULL
                /\ TlsfCannotPlace(mem,
                                   mapping_find(CurHeap, TlsfWant(last'.arg), ZeroFilled),
                                   TlsfWant(last'.arg))) =>
          ErrorKind(last'.err) = "InvalidArgument"]_vars

\* a statistic lies in [0, 1]
InUnitInterval(r) == r.den > 0 /\ 0 <= r.num /\ r.num <= r.den

\* C19: in either engine internal_fragmentation lies in [0, 1] in every
\* reachable state: the total waste of the blocks in use never exceeds
\* allocated_space.
C19_InternalRange ==
    InUnitInterval(IF engine = "buddy"
                   THEN BuddyInternalFragmentation(blocks, allocated_size)
                   ELSE TlsfInternalFragmentation(mem, total_size, allocated_size, ZeroFilled))

\* every class i up to the class of the whole arena holds at most
\* potential_i = F / (MIN_BLOCK_SIZE << i) blocks, F the free space of the
\* blocks counted
BuddyActualWithinPotential(actual_blocks, F, tsize) ==
    \A i \in 0..get_block_size_index(tsize) :
        BuddyActual(actual_blocks, i, i) <= F \div (MIN_BLOCK_SIZE * Pow2(i))

\* actual_i against potential_i over the blocks the statistic scans
BuddyWithinPotential(b, max_address, tsize) ==
    BuddyActualWithinPotential(BuddyCounts(b, BuddyScanned(b, max_address), NoBlocks),
                               BuddyTotalFree(b, BuddyScanned(b, max_address)), tsize)

\* C20: in either engine external_fragmentation and trimmed external
\* fragmentation lie in [0, 1] in every reachable state; in the buddy engine
\* the count of blocks of class i obtainable from the free blocks never
\* exceeds potential_i, over the whole arena and over the blocks below the
\* last allocated address.
C20_ExternalRange ==
    IF engine = "buddy"
    THEN /\ InUnitInterval(BuddyExternalFragmentation(blocks, allocated_size, 0))
         /\ InUnitInterval(BuddyExternalFragmentation(blocks, allocated_size,
                               BuddyFindLastAllocatedAddress(blocks)))
         /\ BuddyWithinPotential(blocks, 0, total_size)
         /\ BuddyWithinPotential(blocks, BuddyFindLastAllocatedAddress(blocks), total_size)
    ELSE \A g \in Garbage :
         /\ InUnitInterval(TlsfExternalFragmentation(mem, total_size, allocated_size, 0, g))
         /\ InUnitInterval(TlsfExternalFragmentation(mem, total_size, allocated_size,
                               TlsfFindLastAllocatedAddress(mem, total_size, g), g))

\* a buddy arena after a dealloc whose free blocks are scattered: both
\* statistics lie strictly between 0 and 1 and the trimmed one scans only a
\* part of the arena
C20_Witness ==
    /\ engine = "buddy" /\ last.op = "dealloc" /\ last.err = "none"
    /\ BuddyFindLastAllocatedAddress(blocks) < total_size
    /\ BuddyExternalFragmentation(blocks, allocated_size, 0).num > 0
    /\ BuddyExternalFragmentation(blocks, allocated_size, 0).num
           < BuddyExternalFragmentation(blocks, allocated_size, 0).den
    /\ BuddyExternalFragmentation(blocks, allocated_size,
                                  BuddyFindLastAllocatedAddress(blocks)).num > 0
    /\ BuddyExternalFragmentation(blocks, allocated_size,
                                  BuddyFindLastAllocatedAddress(blocks)).num
           < BuddyExternalFragmentation(blocks, allocated_size,
                                        BuddyFindLastAllocatedAddress(blocks)).den

\* C21: TLSF engine, fresh arena with N = 1024: the first call alloc(16)
\* returns offset sizeof(Block) and the following alloc(32) returns offset
\* 2 * sizeof(Block) + 16; deallocating both in reverse order leaves one free
\* block.
C21_TwoAllocations ==
    [][/\ (nops = 0 /\ total_size = 1024 /\ nops' = 1
              /\ last'.op = "alloc" /\ last'.arg = 16) =>
          (last'.err = "none" /\ last'.ret = SizeofBlock)
       /\ (nops = 1 /\ total_size = 1024 /\ nops' = 2
              /\ last.op = "alloc" /\ last.arg = 16 /\ last.err = "none"
              /\ last'.op = "alloc" /\ last'.arg = 32) =>
          (last'.err = "none" /\ last'.ret = 2 * SizeofBlock + 16)
       /\ (nops = 3 /\ total_size = 1024 /\ nops' = 4
              /\ Cardinality(ever_returned) = 2
              /\ \E r \in ever_returned :
                    /\ live = {<<r, 16>>}
                    /\ last.op = "dealloc" /\ last.err = "none"
                    /\ last.arg \in ever_returned \ {r}
                    /\ last'.op = "dealloc" /\ last'.arg = r) =>
          (/\ last'.err = "none"
           /\ Len(ChainWalk(mem', 0, total_size)) = 1
           /\ Rd(mem', 0, "is_free", ZeroFilled) = 1)]_vars

\* the free blocks of b are all of the minimum size and there are at least
\* two of them
OnlyMinFree(b) ==
    /\ \A a \in DOMAIN b : b[a].is_free => b[a].size = MIN_BLOCK_SIZE
    /\ Cardinality({a \in DOMAIN b : b[a].is_free}) >= 2

\* C22: buddy engine: whenever something is allocated, every free block has
\* size MIN and the total free space is at least 2 * MIN,
\* external_fragmentation is strictly greater than 0; and the dealloc of a
\* MIN block whose buddy is in use coalesces nothing (the case of the arena
\* filled with MIN blocks of which every other one is deallocated).
C22_MinBlocksFragmented ==
    [][engine = "buddy" =>
        /\ (allocated_size' > 0 /\ OnlyMinFree(blocks')) =>
              /\ BuddyExternalFragmentation(blocks', allocated_size', 0).num > 0
              /\ BuddyExternalFragmentation(blocks', allocated_size', 0).den > 0
        /\ (/\ nops' = nops + 1 /\ last'.op = "dealloc" /\ last'.err = "none"
            /\ blocks[last'.arg].size = MIN_BLOCK_SIZE
            /\ BuddyAddr(last'.arg, MIN_BLOCK_SIZE) \in DOMAIN blocks
            /\ ~blocks[BuddyAddr(last'.arg, MIN_BLOCK_SIZE)].is_free) =>
              /\ DOMAIN blocks' = DOMAIN blocks
              /\ blocks'[last'.arg] = MemoryBlock(MIN_BLOCK_SIZE, 0, TRUE)]_vars

\* an arena filled with MIN blocks of which every other one was deallocated:
\* no two free blocks are buddies, nothing is coalesced
C22_Witness ==
    /\ engine = "buddy" /\ last.op = "dealloc" /\ last.err = "none"
    /\ allocated_size > 0
    /\ \A a \in DOMAIN blocks :
          /\ blocks[a].size = MIN_BLOCK_SIZE
          /\ blocks[a].is_free <=> (a \div MIN_BLOCK_SIZE) % 2 = 0
    /\ Cardinality(DOMAIN blocks) >= 4
    /\ BuddyExternalFragmentation(blocks, allocated_size, 0).num > 0

\* C23: buddy engine: at every rest point there is no pair of blocks that are
\* buddies of each other (offsets A and A XOR size, equal size) and both
\* free: dealloc merges every such pair before it returns, and the splits of
\* alloc and align_alloc leave the left half in use.
C23_NoFreeBuddies ==
    engine = "buddy" =>
        \A a \in DOMAIN blocks :
            blocks[a].is_free =>
                ~(/\ BuddyAddr(a, blocks[a].size) \in DOMAIN blocks
                  /\ blocks[BuddyAddr(a, blocks[a].size)].is_free
                  /\ blocks[BuddyAddr(a, blocks[a].size)].size = blocks[a].size)

\* a dealloc has just merged the freed block with its left buddy and then
\* with the buddy of the result, while another block is still in use and a
\* free block lies next to its buddy in use
C23_Witness ==
    /\ engine = "buddy" /\ last.op = "dealloc" /\ last.err = "none"
    /\ last.arg \notin DOMAIN blocks
    /\ \E a \in DOMAIN blocks :
          /\ blocks[a].is_free /\ a < last.arg
          /\ blocks[a].size >= 4 * MIN_BLOCK_SIZE
          /\ a + blocks[a].size > last.arg
    /\ \E a \in DOMAIN blocks :
          /\ blocks[a].is_free
          /\ BuddyAddr(a, blocks[a].size) \in DOMAIN blocks
          /\ ~blocks[BuddyAddr(a, blocks[a].size)].is_free

\* C24: buddy engine: after a successful alloc(req), req > 0, the block at
\* the returned offset has size exactly want = max(nextPow2(req), MIN) and
\* allocated = req.
C24_BlockOfWant ==
    (engine = "buddy" /\ last.op = "alloc" /\ last.err = "none" /\ last.arg # 0) =>
        /\ last.ret \in DOMAIN blocks
        /\ blocks[last.ret].size = BuddyWant(last.arg)
        /\ blocks[last.ret].allocated = last.arg
        /\ ~blocks[last.ret].is_free

\* a <= b between two size_t values
ULe(a, b) == IF (a < 0) = (b < 0) THEN a <= b ELSE b < 0

\* C25: in either engine, in every state reachable by alloc and dealloc,
\* every block marked in use has 0 < allocated <= size and every block marked
\* free has allocated = 0.
C25_AllocatedWithinSize ==
    IF engine = "buddy"
    THEN \A a \in DOMAIN blocks :
            IF blocks[a].is_free THEN blocks[a].allocated = 0
            ELSE blocks[a].allocated # 0 /\ ULe(blocks[a].allocated, blocks[a].size)
    ELSE \A k \in 1..Len(ChainWalk(mem, 0, total_size)) :
            LET a == ChainWalk(mem, 0, total_size)[k]
            IN  IF Rd(mem, a, "is_free", ZeroFilled) # 0
                THEN Rd(mem, a, "allocated", ZeroFilled) = 0
                ELSE /\ Rd(mem, a, "allocated", ZeroFilled) # 0
                     /\ ULe(Rd(mem, a, "allocated", ZeroFilled),
                            Rd(mem, a, "size", ZeroFilled))

\* C26: TLSF engine: at every rest point after any sequence of alloc,
\* align_alloc and dealloc, bit sl of sl_bitmap[fl] is set if and only if the
\* list L[fl][sl] is non-empty, and bit fl of fl_bitmap is set if and only if
\* some L[fl][*] is non-empty.
C26_BitmapsAgree ==
    engine = "tlsf" =>
        \A fl \in 0..(FL_INDEX_COUNT - 1) :
            /\ \A sl \in 0..(SL_INDEX_COUNT - 1) :
                  (fl \in DOMAIN sl_bitmap /\ sl \in sl_bitmap[fl])
                      <=> ListHead(segregated_lists, fl, sl) # NULL
            /\ fl \in fl_bitmap
                  <=> \E sl \in 0..(SL_INDEX_COUNT - 1) :
                         ListHead(segregated_lists, fl, sl) # NULL

\* a dealloc has just returned with two non-empty lists of different
\* first-level classes, while a class that held a block earlier is empty
C26_Witness ==
    /\ engine = "tlsf" /\ last.op = "dealloc" /\ last.err = "none" /\ last.arg # 0
    /\ Cardinality(fl_bitmap) >= 2
    /\ \E fl \in DOMAIN sl_bitmap : sl_bitmap[fl] = {} /\ fl \notin fl_bitmap
    /\ \A fl \in fl_bitmap : \E sl \in sl_bitmap[fl] :
          ListHead(segregated_lists, fl, sl) # NULL

\* the blocks of the free list that starts at block a, following next_free
\* for at most n links
RECURSIVE FreeListFrom(_, _, _)
FreeListFrom(m, a, n) ==
    IF a < 0 \/ n = 0 THEN {}
    ELSE {a} \cup FreeListFrom(m, Rd(m, a, "next_free", ZeroFilled), n - 1)

\* the cells <<fl, sl>> whose list segregated_lists[fl][sl] links block a
CellsLinking(m, lists, a) ==
    {c \in DOMAIN lists : a \in FreeListFrom(m, lists[c], Cardinality(DOMAIN m))}

\* block->is_free of a header of the chain as a walk of the code reads it: the
\* byte at offset 16, which is the low byte of the word when the word was last
\* written as a size_t of an overlapping header
HeaderIsFree(m, a) ==
    LET w == a + FieldOff("is_free")
    IN  IF w \notin DOMAIN m THEN FALSE
        ELSE IF FieldType(m[w].k) = "bool" THEN m[w].v # 0
        ELSE IF FieldType(m[w].k) = "size_t" THEN m[w].v % 256 # 0
        ELSE FALSE

\* C27: TLSF engine: at every rest point after any sequence of alloc and
\* dealloc, every free block of the physical chain is linked in exactly one
\* free list, the cell L[fl][sl] that mapping_indexes gives for its current
\* size, and no in-use block is linked in any free list.
C27_FreeBlocksLinked ==
    (engine = "tlsf" /\ last.err \notin {"hang", "crash"}) =>
        \A k \in 1..Len(ChainWalk(mem, 0, total_size)) :
            LET a == ChainWalk(mem, 0, total_size)[k]
            IN  CellsLinking(mem, segregated_lists, a)
                    = (IF HeaderIsFree(mem, a)
                       THEN {mapping_indexes(Rd(mem, a, "size", ZeroFilled))}
                       ELSE {})

\* C28: TLSF engine: after a dealloc returns, no two physically adjacent blocks
\* of the chain are both free, in every state reachable by alloc and dealloc,
\* the last block of the arena included.
C28_NoAdjacentFree ==
    (engine = "tlsf" /\ last.op = "dealloc" /\ last.err = "none") =>
        \A k \in 1..(Len(ChainWalk(mem, 0, total_size)) - 1) :
            ~(/\ HeaderIsFree(mem, ChainWalk(mem, 0, total_size)[k])
              /\ HeaderIsFree(mem, ChainWalk(mem, 0, total_size)[k + 1]))

\* C29: TLSF engine: after a successful align_alloc the physical chain tiles
\* the same extent as before the call (the walk by sizeof(Block) + size from
\* offset 0 arrives where it arrived before, so the bytes behind the aligned
\* block are still covered by a block of the chain), and the prev_physical of
\* the block that follows the returned one is the returned block.
C29_AlignAllocKeepsChain ==
    [][(/\ engine = "tlsf" /\ nops' = nops + 1
        /\ last'.op = "align_alloc" /\ last'.err = "none" /\ last'.arg # 0) =>
          /\ ChainEnd(mem', total_size) = ChainEnd(mem, total_size)
          /\ \A k \in 1..(Len(ChainWalk(mem', 0, total_size)) - 1) :
                ChainWalk(mem', 0, total_size)[k] = last'.ret =>
                    Rd(mem', ChainWalk(mem', 0, total_size)[k + 1],
                       "prev_physical", ZeroFilled) = last'.ret]_vars

\* floor(log2(s)), s > 0
FloorLog2(s) == fls(s) - 1

\* the first-level index the formula gives: floor(log2(s)) - log2(MIN)
FormulaFl(s) == FloorLog2(s) - ctz(MIN_BLOCK_SIZE)

\* the second-level index the formula gives for the first-level index fl
FormulaSl(s, fl) ==
    ((s % Pow2(fl + ctz(MIN_BLOCK_SIZE))) * SL_INDEX_COUNT)
        \div Pow2(fl + ctz(MIN_BLOCK_SIZE))

\* C30: TLSF engine: for every size s >= MIN whose first-level index is below
\* FL, mapping_indexes(s) returns fl = floor(log2(s)) - log2(MIN) and
\* sl = floor((s mod 2^(fl + log2(MIN))) * SL / 2^(fl + log2(MIN))); s = 16
\* maps to <<0, 0>>.
C30_MappingFormula ==
    (/\ last.op = "mapping_indexes"
     /\ last.arg >= MIN_BLOCK_SIZE
     /\ FormulaFl(last.arg) < FL_INDEX_COUNT) =>
        last.ret = <<FormulaFl(last.arg), FormulaSl(last.arg, FormulaFl(last.arg))>>

\* C31: TLSF engine constructed with N a multiple of 8 and N >= MIN: in every
\* state reachable by alloc, align_alloc and dealloc, every block met by the
\* walk of the physical chain has size >= MIN and size a multiple of 8.
C31_ChainSizes ==
    (engine = "tlsf" /\ total_size % 8 = 0 /\ total_size >= MIN_BLOCK_SIZE) =>
        \A k \in 1..Len(ChainWalk(mem, 0, total_size)) :
            /\ Rd(mem, ChainWalk(mem, 0, total_size)[k], "size", ZeroFilled)
                  >= MIN_BLOCK_SIZE
            /\ Rd(mem, ChainWalk(mem, 0, total_size)[k], "size", ZeroFilled) % 8 = 0

\* the sum of size - allocated over the blocks in use among the headers w
RECURSIVE WasteOfInUse(_, _)
WasteOfInUse(m, w) ==
    IF w = <<>> THEN 0
    ELSE (IF HeaderIsFree(m, Head(w)) THEN 0
          ELSE Rd(m, Head(w), "size", ZeroFilled) - Rd(m, Head(w), "allocated", ZeroFilled))
             + WasteOfInUse(m, Tail(w))

\* C32: TLSF engine: in every state reachable by alloc and dealloc,
\* get_internal_fragmentation is the sum of size - allocated over every block
\* in use of the physical chain divided by allocated_space, and the walk of
\* the statistics visits every block of the chain, the last one included.
C32_TlsfInternalFormula ==
    engine = "tlsf" =>
        /\ TlsfWalk(mem, 0, total_size, 0, ZeroFilled) = ChainWalk(mem, 0, total_size)
        /\ allocated_size # 0 =>
              TlsfInternalFragmentation(mem, total_size, allocated_size, ZeroFilled)
                  = Ratio(WasteOfInUse(mem, ChainWalk(mem, 0, total_size)),
                          allocated_size)

\* C33: in either engine an alloc or align_alloc call that fails with
\* OutOfMemory leaves the allocator state as it was before the call: the
\* blocks, the free lists and their bitmaps, and allocated_space are unchanged.
C33_OutOfMemoryFrame ==
    [][(/\ nops' = nops + 1
        /\ last'.op \in {"alloc", "align_alloc"}
        /\ ErrorKind(last'.err) = "OutOfMemory") =>
          UNCHANGED <<allocated_size, blocks, mem, segregated_lists,
                      fl_bitmap, sl_bitmap>>]_vars

\* a TLSF align_alloc has just failed with OutOfMemory while an allocation is
\* live and a free block, too small for the request, is linked in a free list
C33_Witness ==
    /\ engine = "tlsf" /\ last.op = "align_alloc" /\ last.err = "bad_alloc"
    /\ live # {} /\ allocated_size > 0
    /\ fl_bitmap # {}

\* C34: buddy engine: from every reachable state and for every request,
\* align_alloc has the outcome of alloc (the same offset or the same
\* OutOfMemory) and leaves the same block map and counter; for every free
\* block that is large enough the grid offset computed by align_alloc is 0.
C34_AlignAllocIsAlloc ==
    engine = "buddy" =>
        \A size \in BuddyRequests \cup BuddyHugeRequests :
            /\ BuddyAlignAlloc(blocks, allocated_size, size)
                  = BuddyAlloc(blocks, allocated_size, size)
            /\ \A a \in AllocFits(blocks, calculate_block_size(size)) :
                  GridPos(a, calculate_block_size(size)) = a

\* an align_alloc has just returned a block at an offset other than 0 after
\* splitting, while free blocks of two different sizes remain at offsets
\* other than 0
C34_Witness ==
    /\ engine = "buddy" /\ last.op = "align_alloc" /\ last.err = "none"
    /\ last.ret > 0
    /\ \E a, c \in DOMAIN blocks :
          /\ a > 0 /\ c > 0
          /\ blocks[a].is_free /\ blocks[c].is_free
          /\ blocks[a].size # blocks[c].size

\* the sum of sizeof(Block) + size over the headers w
RECURSIVE ChainExtent(_, _)
ChainExtent(m, w) ==
    IF w = <<>> THEN 0
    ELSE SizeofBlock + Rd(m, Head(w), "size", ZeroFilled) + ChainExtent(m, Tail(w))

\* C35: TLSF engine, alloc and dealloc only: the physical chain from the
\* header at offset 0 covers the extent it covers in the initial state, the
\* sum over its blocks of sizeof(Block) + size being the constant
\* total_size + sizeof(Block), each block starting where the one before it
\* ends.
C35_ChainExtentConstant ==
    engine = "tlsf" =>
        LET w == ChainWalk(mem, 0, total_size)
        IN  /\ ChainExtent(mem, w) = total_size + SizeofBlock
            /\ w # <<>> /\ w[1] = 0
            /\ \A k \in 1..(Len(w) - 1) :
                  w[k + 1] = w[k] + SizeofBlock + Rd(mem, w[k], "size", ZeroFilled)

=============================================================================
